---------------------------- MODULE Spec2Model ----------------------------
(* Model of the mini-rx store core: the action queue, the reducer manager, *)
(* combineReducers, configureStore / addFeature / removeFeature and the    *)
(* effect registration, for the two libraries that share this code:        *)
(* mini-rx-store (store-core + store.ts) and signal-store (store-core +    *)
(* Store class).                                                           *)
EXTENDS Integers, Sequences, FiniteSets, TLC

VARIABLES
    lib,                \* which library's store-core is loaded: "mini" | "signal"
    storeSubs,          \* number of state-updating subscriptions to actions$
    isStoreConfigured,  \* store.ts (mini-rx-store): let isStoreConfigured
    featureReducers,    \* reducer manager: ordered dictionary key -> reducer
    metaReducers,       \* reducer manager: process-wide meta-reducer chain
    hasUndoExtension,   \* store-core: export let hasUndoExtension
    appState,           \* the snapshot: [ref, slices]
    nextRef,            \* next fresh object identity
    queue,              \* action queue: ids of dispatched actions not yet delivered
    phase,              \* "idle" | "reduce" | "notify": position of the drain loop
    dispatched,         \* history: every action passed to dispatch, in call order
    reduced,            \* history: ids of the actions reduced, in reduction order
    effects,            \* registered effects: [meta, emitted, failed, failedAt]
    lastCall,           \* the last API call, its arguments and its outcome
    configureCalls,     \* number of configureStore calls made so far
    calls,              \* number of API calls made so far
    globalCsConfig,     \* component store: the process-wide configuration
    csCreated,          \* a component store has been constructed
    csExtensions,       \* component store: its merged extension list
    csHasUndoExtension, \* component store: an undo extension is installed
    csState,            \* component store: its private state
    csActions,          \* component store: actions on its own action stream
    csLastCall,         \* component store: the last call and its outcome
    csCalls,            \* component store: number of calls and emissions so far
    csDestroyed,        \* component store: destroy() has released the subscriptions
    csConnections,      \* component store: connect bindings [field, emitted, delivered]
    csEffect,           \* component store: its effect [registered, pending, calls]
    selState,           \* selectors: the state object read, [ref, counter]
    selNodes,           \* selectors: the cache of each node, [valid, in, out]
    selCalls,           \* selectors: arguments of the combiner calls, per node
    selOps,             \* selectors: number of updates and reads so far
    csOther,            \* a second component store: [created, state, actions]
    thrown,             \* ids of the actions whose reduction threw, as seen by dispatch
    reducedWith,        \* per reduction: [id, metas], the meta-reducer chain that took part
    stateEmissions,     \* values a subscriber of select(slice "a") received: [id, value]
    fxRequests          \* effects with an asynchronous API call: [pipes, busy, resolved]

storeVars == <<lib, storeSubs, isStoreConfigured, featureReducers, metaReducers,
               hasUndoExtension, appState, nextRef, queue, phase, dispatched,
               reduced, effects, lastCall, configureCalls, calls>>

csLifeVars == <<csDestroyed, csConnections, csEffect>>

csVars == <<globalCsConfig, csCreated, csExtensions, csHasUndoExtension, csState,
            csActions, csLastCall, csCalls, csLifeVars>>

selVars == <<selState, selNodes, selCalls, selOps>>

auxVars == <<selVars, csOther, thrown, reducedWith, fxRequests>>

otherVars == <<auxVars, stateEmissions>>

vars == <<storeVars, csVars, otherVars>>

-----------------------------------------------------------------------------
(* Bounds *)

MaxCalls == 3
MaxEffects == 2

MaxCsCalls == 3

MaxExts == 2

MaxSelOps == 5

(* Input domains *)

Keys == {"a", "b"}
UserTypes == {"inc", "other"}
Undef == 0 - 1
NoKey == "-"
ReducerDefault == 0
InitialStateValue == 3

-----------------------------------------------------------------------------
(* Small helpers *)

Range(s) == {s[i] : i \in 1..Len(s)}

KeysOf(reducers) == {reducers[i].key : i \in 1..Len(reducers)}

StateKeys(state) == DOMAIN state.slices

IndexOfKey(reducers, k) == CHOOSE i \in 1..Len(reducers) : reducers[i].key = k

IsUndefined(state) == state.ref = 0

UndefinedState == [ref |-> 0, slices |-> <<>>]

EmptySlices == [k \in {} |-> 0]

OneSlice(k, v) == [x \in {k} |-> v]

-----------------------------------------------------------------------------
(* Reducers: a slice reducer is [key, kind, init]; kind "counter" adds one  *)
(* on an "inc" action and returns its input otherwise, kind "noop" always   *)
(* returns its input, kind "throwing" is a counter that throws on a "boom"  *)
(* action, kind "user" takes the payload of a loadUserSuccess or            *)
(* saveUserSuccess action, kind "nodefault" returns its input and has no    *)
(* default parameter (the shape of the README's reducer). init is the       *)
(* initialState the reducer was registered with (Undef when none: the       *)
(* reducer's own default parameter applies, if it has one).                 *)

ReducerKinds == {"counter", "noop", "throwing", "user", "nodefault"}

\* the users the fake API calls deliver
AsyncUser == 10
UpdatedAsyncUser == 11

\* the action an API effect maps the answer of its call to
SuccessType(trigger) ==
    IF trigger = "loadUser" THEN "loadUserSuccess" ELSE "saveUserSuccess"

\* action.payload of a success action
PayloadOf(type) == IF type = "loadUserSuccess" THEN AsyncUser ELSE UpdatedAsyncUser

\* the action type on which a reducer of kind "throwing" throws
ThrowingType == "boom"

\* some slice reducer throws while the action is reduced
Throws(reducers, type) ==
    type = ThrowingType /\ \E i \in 1..Len(reducers) : reducers[i].kind = "throwing"

\* the reducer function proper, on a defined previous state
ApplyKind(kind, prev, type) ==
    IF kind \in {"counter", "throwing"} /\ type = "inc" THEN prev + 1
    ELSE IF kind = "user" /\ type \in {"loadUserSuccess", "saveUserSuccess"}
    THEN PayloadOf(type)
    ELSE prev

\* createReducerWithInitialState: (state = initialState, action) => reducer(state, action)
SliceReduce(r, prev, type) ==
    LET seeded == IF prev # Undef THEN prev
                  ELSE IF r.init # Undef THEN r.init
                  ELSE IF r.kind = "nodefault" THEN Undef
                  ELSE ReducerDefault
    IN ApplyKind(r.kind, seeded, type)

\* every reducer is handed the previous state of slice "a"
PrevOfFirstKey(state, k) ==
    IF "a" \in StateKeys(state) THEN state.slices["a"] ELSE Undef

PrevForKey(state, k) ==
    IF k \in StateKeys(state) THEN state.slices[k] ELSE Undef

NextSlices(reducers, state, type) ==
    [k \in KeysOf(reducers) |->
        SliceReduce(reducers[IndexOfKey(reducers, k)], PrevForKey(state, k), type)]

HasChanged(reducers, state, type) ==
    \/ Cardinality(StateKeys(state)) # Len(reducers)
    \/ \E k \in KeysOf(reducers) :
          NextSlices(reducers, state, type)[k] # PrevForKey(state, k)

\* the loop of combineReducers from index i on: the reducer invocations it
\* makes, each with the key and the previousStateForKey it is handed
RECURSIVE reducerCalls(_, _, _)
reducerCalls(reducers, state, i) ==
    IF i > Len(reducers) THEN <<>>
    ELSE <<[key |-> reducers[i].key, prev |-> PrevForKey(state, reducers[i].key)]>>
         \o reducerCalls(reducers, state, i + 1)

\* combineReducers without the no-op short-circuit (a new object every time)
combineReducersAlwaysNew(reducers, state, type, ref) ==
    [ref |-> ref, slices |-> NextSlices(reducers, state, type)]

\* combineReducers that never drops or adds a key of the incoming snapshot
combineReducersKeepKeys(reducers, state, type, ref) ==
    IF \E k \in KeysOf(reducers) \cap StateKeys(state) :
          NextSlices(reducers, state, type)[k] # PrevForKey(state, k)
    THEN [ref |-> ref,
          slices |-> [k \in StateKeys(state) |->
                        IF k \in KeysOf(reducers)
                        THEN NextSlices(reducers, state, type)[k]
                        ELSE state.slices[k]]]
    ELSE state

\* combineReducers(reducers)(state, action); ref is the identity of the
\* object allocated for nextState
combineReducers(reducers, state, type, ref) ==
    IF HasChanged(reducers, state, type)
    THEN [ref |-> ref, slices |-> NextSlices(reducers, state, type)]
    ELSE state

\* reducer manager: the meta-reducers wrap the combined reducer; the ones
\* modelled here pass state and action through unchanged
rootReducer(reducers, metas, state, type, ref) ==
    combineReducers(reducers, state, type, ref)

-----------------------------------------------------------------------------
(* Extensions *)

ExtensionIds == {"undo", "logger", "immutable"}

\* extension lists a caller can pass: no kind twice
ExtLists ==
    {l \in UNION {[1..n -> ExtensionIds] : n \in 0..MaxExts} :
        \A i, j \in 1..Len(l) : i # j => l[i] # l[j]}

Priority(id) ==
    CASE id = "undo" -> 1
      [] id = "logger" -> 2
      [] id = "immutable" -> 3

sortExtensions(exts) == SortSeq(exts, LAMBDA x, y : Priority(x) < Priority(y))

\* addExtension of mini-rx-store: hasUndoExtension = extension.id === UNDO
addExtensionMini(st, id) ==
    [metas |-> Append(st.metas, id), undo |-> (id = "undo")]

\* addExtension of signal-store: if (extension.id === UNDO) hasUndoExtension = true
addExtensionSignal(st, id) ==
    [metas |-> Append(st.metas, id), undo |-> (st.undo \/ id = "undo")]

RECURSIVE addExtensions(_, _, _)
addExtensions(l, st, exts) ==
    IF exts = <<>> THEN st
    ELSE addExtensions(l,
                       IF l = "mini" THEN addExtensionMini(st, Head(exts))
                                     ELSE addExtensionSignal(st, Head(exts)),
                       Tail(exts))

-----------------------------------------------------------------------------
(* Inputs of the API calls *)

ReducerChoices == {[kind |-> "counter", init |-> InitialStateValue],
                   [kind |-> "noop", init |-> Undef]}

NoConfig ==
    [metaReducers |-> <<>>, extensions |-> <<>>,
     hasReducers |-> FALSE, reducers |-> <<>>,
     hasInitialState |-> FALSE, initialState |-> EmptySlices]

Configs ==
    { NoConfig,
      [NoConfig EXCEPT !.metaReducers = <<"m1">>,
                       !.extensions = <<"immutable", "undo">>],
      [NoConfig EXCEPT !.hasReducers = TRUE,
                       !.reducers = <<[key |-> "a", kind |-> "counter", init |-> Undef]>>],
      [NoConfig EXCEPT !.hasInitialState = TRUE,
                       !.initialState = OneSlice("b", InitialStateValue)],
      [NoConfig EXCEPT !.hasReducers = TRUE,
                       !.reducers = <<[key |-> "a", kind |-> "counter", init |-> Undef]>>,
                       !.hasInitialState = TRUE,
                       !.initialState = OneSlice("a", InitialStateValue)] }

\* configurations that carry a meta-reducer and an extension list
ExtConfigs ==
    {[NoConfig EXCEPT !.metaReducers = <<"m1">>, !.extensions = l] : l \in ExtLists}

EffectMetas == {"none", "dispatch", "nodispatch"}

-----------------------------------------------------------------------------
(* Action queue (createActionsOnQueue): dispatch appends to a FIFO buffer;  *)
(* a drain loop delivers one action at a time to the subscribers and is     *)
(* re-entry guarded: a dispatch made while an action is being processed     *)
(* only enqueues.                                                           *)

\* nested: the dispatch call was made while another action was being processed
Action(type, key, src) ==
    [type |-> type, key |-> key, src |-> src, nested |-> (phase = "notify")]

\* a type string that leaves the name out
actionTypeDropName(ns, op, name) == ns \o "/" \o op

\* "<namespace>/<operation>[/<name>]"; NoKey stands for a name not given
actionType(ns, op, name) ==
    ns \o "/" \o op \o (IF name = NoKey THEN "" ELSE "/" \o name)

\* createMiniRxActionType(operation, featureKey?)
createMiniRxActionType(op, key) == actionType("@mini-rx", op, key)

TypeOf(a) == createMiniRxActionType(a.type, a.key)

NextInQueue(q) == Head(q)

RestOfQueue(q) == Tail(q)

dispatch(type, key, src) ==
    /\ dispatched' = Append(dispatched, Action(type, key, src))
    /\ queue' = Append(queue, Len(dispatched) + 1)
    /\ phase' = IF phase = "idle" THEN "reduce" ELSE phase

NoDispatch == UNCHANGED <<dispatched, queue, phase>>

-----------------------------------------------------------------------------
(* Store core *)

\* initStore without the `if (actionSubscription) return` guard
initStoreNoGuard(subs) == subs + 1

\* initStore: subscribe the state update to actions$ once
initStore(subs) == IF subs > 0 THEN subs ELSE 1

\* one run of the subscriber of initStore:
\*   nextState = reducer(appState.get() ?? {}, action); appState.set(nextState)
\* returns the new snapshot and the next fresh identity
SubscriberRun(st, type) ==
    LET cur  == IF IsUndefined(st.state)
                THEN [ref |-> st.ref, slices |-> EmptySlices]
                ELSE st.state
        ref1 == IF IsUndefined(st.state) THEN st.ref + 1 ELSE st.ref
        out  == rootReducer(featureReducers, metaReducers, cur, type, ref1)
    IN [state |-> out, ref |-> IF out.ref = ref1 THEN ref1 + 1 ELSE ref1]

\* the selected value: state => state["a"]
selectSlice(state) == IF IsUndefined(state) THEN Undef ELSE PrevForKey(state, "a")

\* select without distinctUntilChanged: every snapshot is passed on
selectEmitsEverySnapshot(prev, next) == TRUE

\* select: the mapped value is passed on when it differs from the last one
selectEmits(prev, next) == selectSlice(prev) # selectSlice(next)

\* the emissions after appState.set(next), caused by action id (0: no action)
emit(emissions, prev, next, id) ==
    IF selectEmits(prev, next)
    THEN Append(emissions, [id |-> id, value |-> selectSlice(next)])
    ELSE emissions

\* the subscriber publishes an empty snapshot when the reducer throws
SubscriberThrowsPublishesEmpty(st) ==
    [state |-> [ref |-> st.ref, slices |-> EmptySlices], ref |-> st.ref + 1]

\* one run of the subscriber of initStore in which reducer(...) throws: the
\* statement appState.set(nextState) is never reached
SubscriberThrows(st) == st

\* the reducer in effect is never recombined: it wraps the chain of construction
combinedChainStale(metas) == <<>>

\* the reducer in effect wraps the whole current chain (recombined on every
\* addMetaReducers)
combinedChain(metas) == metas

RECURSIVE SubscribersRun(_, _, _)
SubscribersRun(n, st, type) ==
    IF n = 0 THEN st ELSE SubscribersRun(n - 1, SubscriberRun(st, type), type)

\* the record of an API call: init is the initialState given to addFeature,
\* cfg the config given to configureStore
Call(op, key, err) ==
    [op |-> op, key |-> key, err |-> err, init |-> Undef, cfg |-> NoConfig]

ConfigureCall(cfg, err) == [Call("configureStore", NoKey, err) EXCEPT !.cfg = cfg]

AddFeatureCall(k, rc, err) == [Call("addFeature", k, err) EXCEPT !.init = rc.init]

CanCall == phase \in {"idle", "notify"} /\ calls < MaxCalls

\* globalCsConfig before set() and after _resetConfig()
NoCsConfig == [set |-> FALSE, extensions |-> <<>>]

\* the chain getComponentState -> getCounter -> getSquareCounter
SelectorNodes == {"getCounter", "getSquareCounter"}

\* the cache of a selector node that has not been read yet
NoCache == [valid |-> FALSE, in |-> Undef, out |-> Undef]

\* no API effect registered, no call in flight
NoRequests == [pipes |-> {}, busy |-> {}, resolved |-> <<>>]

\* the second component store before it is constructed
NoComponentStore == [created |-> FALSE, state |-> <<>>, actions |-> <<>>]

\* no effect registered on the component store
NoCsEffect == [registered |-> FALSE, pending |-> <<>>, calls |-> <<>>]

\* the record of a component store call: exts is the extension list given
CsCall(op, err) == [op |-> op, err |-> err, exts |-> <<>>]

CsExtCall(op, err, l) == [CsCall(op, err) EXCEPT !.exts = l]

Init ==
    /\ lib \in {"mini", "signal"}
    /\ storeSubs = 0
    /\ isStoreConfigured = FALSE
    /\ featureReducers = <<>>
    /\ metaReducers = <<>>
    /\ hasUndoExtension = FALSE
    /\ appState = IF lib = "mini" THEN UndefinedState
                  ELSE [ref |-> 1, slices |-> EmptySlices]
    /\ nextRef = 2
    /\ queue = <<>>
    /\ phase = "idle"
    /\ dispatched = <<>>
    /\ reduced = <<>>
    /\ effects = <<>>
    /\ lastCall = Call("none", NoKey, "none")
    /\ configureCalls = 0
    /\ calls = 0
    /\ globalCsConfig = NoCsConfig
    /\ csCreated = FALSE
    /\ csExtensions = <<>>
    /\ csHasUndoExtension = FALSE
    /\ csState = <<>>
    /\ csActions = <<>>
    /\ csLastCall = CsCall("none", "none")
    /\ csCalls = 0
    /\ csDestroyed = FALSE
    /\ csConnections = <<>>
    /\ csEffect = NoCsEffect
    /\ selState = [ref |-> 1, counter |-> 1]
    /\ selNodes = [n \in SelectorNodes |-> NoCache]
    /\ selCalls = [n \in SelectorNodes |-> <<>>]
    /\ selOps = 0
    /\ csOther = NoComponentStore
    /\ thrown = <<>>
    /\ reducedWith = <<>>
    /\ stateEmissions = <<>>
    /\ fxRequests = NoRequests

\* the API effects whose ofType lets the action through: each starts a call
Triggered(id) ==
    {[e |-> p.e, trigger |-> id] :
        p \in {q \in fxRequests.pipes :
                 q.ofType = dispatched[id].type /\ ~effects[q.e].failed}}

\* the drain loop delivers the next action to the subscribers
ProcessNext ==
    /\ phase = "reduce"
    /\ LET id == NextInQueue(queue)
           st == [state |-> appState, ref |-> nextRef]
           throws == storeSubs > 0 /\ Throws(featureReducers, dispatched[id].type)
           r  == IF throws THEN SubscriberThrows(st)
                 ELSE SubscribersRun(storeSubs, st, dispatched[id].type)
       IN /\ appState' = r.state
          /\ nextRef' = r.ref
          /\ reduced' = IF throws THEN reduced
                        ELSE reduced \o [i \in 1..storeSubs |-> id]
          /\ thrown' = IF throws THEN Append(thrown, id) ELSE thrown
          /\ reducedWith' = IF throws \/ storeSubs = 0 THEN reducedWith
                            ELSE Append(reducedWith,
                                        [id |-> id, metas |-> combinedChain(metaReducers)])
          /\ stateEmissions' = IF throws \/ storeSubs = 0 THEN stateEmissions
                               ELSE emit(stateEmissions, appState, r.state, id)
          /\ fxRequests' = [fxRequests EXCEPT !.busy = @ \cup Triggered(id)]
          /\ queue' = RestOfQueue(queue)
    /\ phase' = "notify"
    /\ UNCHANGED <<csVars, selVars, csOther, lib, storeSubs, isStoreConfigured, featureReducers, metaReducers,
                   hasUndoExtension, dispatched, effects, lastCall, configureCalls, calls>>

\* the actions dispatched outside of any action processing
TopLevelIds == {id \in 1..Len(dispatched) : ~dispatched[id].nested}

\* the queue is being drained inside the dispatch of INIT made by a
\* configureStore call of store.ts: _configureStore(config) has not returned
InsideConfigureStore ==
    /\ lib = "mini"
    /\ phase # "idle"
    /\ TopLevelIds # {}
    /\ LET top == CHOOSE id \in TopLevelIds : \A j \in TopLevelIds : j <= id
       IN dispatched[top].type = "init" /\ dispatched[top].key = NoKey

\* all notifications of the current action are done; when the queue is empty
\* the outer dispatch returns, and with it a configureStore call of store.ts
\* that made it (isStoreConfigured = true)
EndNotify ==
    /\ phase = "notify"
    /\ phase' = IF queue = <<>> THEN "idle" ELSE "reduce"
    /\ isStoreConfigured' = IF queue = <<>> /\ InsideConfigureStore
                            THEN TRUE ELSE isStoreConfigured
    /\ UNCHANGED <<csVars, otherVars, lib, storeSubs, featureReducers, metaReducers,
                   hasUndoExtension, appState, nextRef, queue, dispatched, reduced,
                   effects, lastCall, configureCalls, calls>>

\* dispatch(action) called by user code
Dispatch(t) ==
    /\ CanCall
    /\ UNCHANGED configureCalls
    /\ dispatch(t, NoKey, 0)
    /\ lastCall' = Call("dispatch", NoKey, "none")
    /\ calls' = calls + 1
    /\ UNCHANGED <<csVars, otherVars, lib, storeSubs, isStoreConfigured, featureReducers, metaReducers,
                   hasUndoExtension, appState, nextRef, reduced, effects>>

-----------------------------------------------------------------------------
(* Reducer manager (createReducerManager) *)

hasFeatureReducers(reducers) == Len(reducers) > 0

addFeatureReducer(reducers, key, rc) ==
    Append(reducers, [key |-> key, kind |-> rc.kind, init |-> rc.init])

removeFeatureReducer(reducers, key) ==
    SelectSeq(reducers, LAMBDA r : r.key # key)

setFeatureReducers(reducers, new) == new

addMetaReducers(metas, new) == metas \o new

-----------------------------------------------------------------------------
(* configureStore of store-core, after initStore and the reducer check *)

\* config.extensions.forEach(addExtension): installation in the caller's order
ConfiguredMetasUnsorted(cfg) ==
    addExtensions(lib,
                  [metas |-> addMetaReducers(metaReducers, cfg.metaReducers),
                   undo |-> hasUndoExtension],
                  cfg.extensions)

ConfiguredMetas(cfg) ==
    addExtensions(lib,
                  [metas |-> addMetaReducers(metaReducers, cfg.metaReducers),
                   undo |-> hasUndoExtension],
                  sortExtensions(cfg.extensions))

\* configureStore that never publishes config.initialState
configureStoreCoreSkipInitialState(cfg) ==
    /\ storeSubs' = initStore(storeSubs)
    /\ metaReducers' = ConfiguredMetas(cfg).metas
    /\ hasUndoExtension' = ConfiguredMetas(cfg).undo
    /\ featureReducers' = IF cfg.hasReducers
                          THEN setFeatureReducers(featureReducers, cfg.reducers)
                          ELSE featureReducers
    /\ UNCHANGED <<appState, nextRef, stateEmissions>>
    /\ dispatch("init", NoKey, 0)

configureStoreCore(cfg) ==
    /\ storeSubs' = initStore(storeSubs)
    /\ metaReducers' = ConfiguredMetas(cfg).metas
    /\ hasUndoExtension' = ConfiguredMetas(cfg).undo
    /\ featureReducers' = IF cfg.hasReducers
                          THEN setFeatureReducers(featureReducers, cfg.reducers)
                          ELSE featureReducers
    /\ appState' = IF cfg.hasInitialState
                   THEN [ref |-> nextRef, slices |-> cfg.initialState]
                   ELSE appState
    /\ nextRef' = IF cfg.hasInitialState THEN nextRef + 1 ELSE nextRef
    /\ stateEmissions' = IF cfg.hasInitialState
                         THEN emit(stateEmissions, appState,
                                   [ref |-> nextRef, slices |-> cfg.initialState], 0)
                         ELSE stateEmissions
    /\ dispatch("init", NoKey, 0)

\* configureStore without the check for already registered feature reducers
ConfigureStoreNoReducerCheck(cfg) ==
    /\ lib = "mini"
    /\ CanCall
    /\ configureCalls' = configureCalls + 1
    /\ calls' = calls + 1
    /\ IF isStoreConfigured
       THEN /\ lastCall' = ConfigureCall(cfg, "AlreadyConfigured")
            /\ UNCHANGED <<storeSubs, isStoreConfigured, featureReducers,
                           metaReducers, hasUndoExtension, appState, nextRef,
                           queue, phase, dispatched, stateEmissions>>
       ELSE /\ configureStoreCore(cfg)
            /\ isStoreConfigured' = (phase # "idle")
            /\ lastCall' = ConfigureCall(cfg, "none")
    /\ UNCHANGED <<csVars, auxVars, lib, reduced, effects>>

\* configureStore of store.ts that sets isStoreConfigured before it calls
\* configureStore of store-core
ConfigureStoreFlagFirst(cfg) ==
    /\ lib = "mini"
    /\ CanCall
    /\ configureCalls' = configureCalls + 1
    /\ calls' = calls + 1
    /\ IF isStoreConfigured
       THEN /\ lastCall' = ConfigureCall(cfg, "AlreadyConfigured")
            /\ UNCHANGED <<storeSubs, isStoreConfigured, featureReducers,
                           metaReducers, hasUndoExtension, appState, nextRef,
                           queue, phase, dispatched, stateEmissions>>
       ELSE IF hasFeatureReducers(featureReducers)
       THEN /\ storeSubs' = initStore(storeSubs)
            /\ isStoreConfigured' = TRUE
            /\ lastCall' = ConfigureCall(cfg, "ReducersDetected")
            /\ UNCHANGED <<featureReducers, metaReducers,
                           hasUndoExtension, appState, nextRef, queue, phase,
                           dispatched, stateEmissions>>
       ELSE /\ configureStoreCore(cfg)
            /\ isStoreConfigured' = TRUE
            /\ lastCall' = ConfigureCall(cfg, "none")
    /\ UNCHANGED <<csVars, auxVars, lib, reduced, effects>>

\* mini-rx-store: configureStore of store.ts around configureStore of
\* store-core. isStoreConfigured is set when _configureStore has returned: at
\* once for a call made while an action is processed (its INIT only waits),
\* and when the queue is drained (EndNotify) for a call made while idle
ConfigureStore(cfg) ==
    /\ lib = "mini"
    /\ CanCall
    /\ configureCalls' = configureCalls + 1
    /\ calls' = calls + 1
    /\ IF isStoreConfigured
       THEN /\ lastCall' = ConfigureCall(cfg, "AlreadyConfigured")
            /\ UNCHANGED <<storeSubs, isStoreConfigured, featureReducers,
                           metaReducers, hasUndoExtension, appState, nextRef,
                           queue, phase, dispatched, stateEmissions>>
       ELSE IF hasFeatureReducers(featureReducers)
       THEN /\ storeSubs' = initStore(storeSubs)
            /\ lastCall' = ConfigureCall(cfg, "ReducersDetected")
            /\ UNCHANGED <<isStoreConfigured, featureReducers, metaReducers,
                           hasUndoExtension, appState, nextRef, queue, phase,
                           dispatched, stateEmissions>>
       ELSE /\ configureStoreCore(cfg)
            /\ isStoreConfigured' = (phase # "idle")
            /\ lastCall' = ConfigureCall(cfg, "none")
    /\ UNCHANGED <<csVars, auxVars, lib, reduced, effects>>

\* signal-store: new Store(config) calls configureStore of store-core
NewStore(cfg) ==
    /\ lib = "signal"
    /\ CanCall
    /\ configureCalls' = configureCalls + 1
    /\ calls' = calls + 1
    /\ configureStoreCore(cfg)
    /\ lastCall' = ConfigureCall(cfg, "none")
    /\ UNCHANGED <<csVars, auxVars, lib, isStoreConfigured, reduced, effects>>

\* removeFeature that only dispatches the destroy action
RemoveFeatureKeepReducer(k) ==
    /\ CanCall
    /\ UNCHANGED configureCalls
    /\ calls' = calls + 1
    /\ dispatch("destroy", k, 0)
    /\ lastCall' = Call("removeFeature", k, "none")
    /\ UNCHANGED <<csVars, otherVars, lib, storeSubs, isStoreConfigured, featureReducers, metaReducers,
                   hasUndoExtension, appState, nextRef, reduced, effects>>

\* addFeature that does not pass config.initialState on
AddFeatureDropInitialState(k, rc) ==
    /\ CanCall
    /\ UNCHANGED configureCalls
    /\ calls' = calls + 1
    /\ storeSubs' = initStore(storeSubs)
    /\ IF k \in KeysOf(featureReducers)
       THEN /\ lastCall' = AddFeatureCall(k, rc, "DuplicateKey")
            /\ UNCHANGED featureReducers
            /\ NoDispatch
       ELSE /\ featureReducers' = addFeatureReducer(featureReducers, k,
                                                    [rc EXCEPT !.init = Undef])
            /\ dispatch("init", k, 0)
            /\ lastCall' = AddFeatureCall(k, rc, "none")
    /\ UNCHANGED <<csVars, otherVars, lib, isStoreConfigured, metaReducers, hasUndoExtension,
                   appState, nextRef, reduced, effects>>

\* addFeature that dispatches the init action before registering the reducer
AddFeatureDispatchFirst(k, rc) ==
    /\ CanCall
    /\ UNCHANGED configureCalls
    /\ calls' = calls + 1
    /\ storeSubs' = initStore(storeSubs)
    /\ dispatch("init", k, 0)
    /\ IF k \in KeysOf(featureReducers)
       THEN /\ lastCall' = AddFeatureCall(k, rc, "DuplicateKey")
            /\ UNCHANGED featureReducers
       ELSE /\ featureReducers' = addFeatureReducer(featureReducers, k, rc)
            /\ lastCall' = AddFeatureCall(k, rc, "none")
    /\ UNCHANGED <<csVars, otherVars, lib, isStoreConfigured, metaReducers, hasUndoExtension,
                   appState, nextRef, reduced, effects>>

AddFeature(k, rc) ==
    /\ CanCall
    /\ UNCHANGED configureCalls
    /\ calls' = calls + 1
    /\ storeSubs' = initStore(storeSubs)
    /\ IF k \in KeysOf(featureReducers)
       THEN /\ lastCall' = AddFeatureCall(k, rc, "DuplicateKey")
            /\ UNCHANGED featureReducers
            /\ NoDispatch
       ELSE /\ featureReducers' = addFeatureReducer(featureReducers, k, rc)
            /\ dispatch("init", k, 0)
            /\ lastCall' = AddFeatureCall(k, rc, "none")
    /\ UNCHANGED <<csVars, otherVars, lib, isStoreConfigured, metaReducers, hasUndoExtension,
                   appState, nextRef, reduced, effects>>

RemoveFeature(k) ==
    /\ CanCall
    /\ UNCHANGED configureCalls
    /\ calls' = calls + 1
    /\ featureReducers' = removeFeatureReducer(featureReducers, k)
    /\ dispatch("destroy", k, 0)
    /\ lastCall' = Call("removeFeature", k, "none")
    /\ UNCHANGED <<csVars, otherVars, lib, storeSubs, isStoreConfigured, metaReducers,
                   hasUndoExtension, appState, nextRef, reduced, effects>>

\* mini-rx-store: destroy of store-core ends the subscription of initStore and
\* drops the reducer manager (the next getReducerManager creates an empty one)
destroy ==
    /\ lib = "mini"
    /\ CanCall
    /\ UNCHANGED configureCalls
    /\ calls' = calls + 1
    /\ storeSubs' = 0
    /\ featureReducers' = <<>>
    /\ metaReducers' = <<>>
    /\ NoDispatch
    /\ lastCall' = Call("destroy", NoKey, "none")
    /\ UNCHANGED <<csVars, otherVars, lib, isStoreConfigured, hasUndoExtension,
                   appState, nextRef, reduced, effects>>

-----------------------------------------------------------------------------
(* Effects: effect() / rxEffect() *)

\* only an effect with metadata {dispatch: true} dispatches
shouldDispatchOnlyMarked(meta) == meta = "dispatch"

\* let shouldDispatch = true; if (hasEffectMetaData) shouldDispatch = !!metaData.dispatch
shouldDispatch(meta) == meta # "nodispatch"

\* a failure of any effect's source ends every effect's subscription
effectSubscribedNoneFailed(effs, e) == \A i \in 1..Len(effs) : ~effs[i].failed

\* the effect is resubscribed after its source failed
effectSubscribedAlways(effs, e) == TRUE

\* effectWithErrorHandler$.subscribe(...): one subscription per effect, which
\* lasts until that effect's own source fails
effectSubscribed(effs, e) == ~effs[e].failed

RegisterEffect(m) ==
    /\ phase \in {"idle", "notify"}
    /\ Len(effects) < MaxEffects
    /\ UNCHANGED <<configureCalls, calls>>
    /\ effects' = Append(effects, [meta |-> m, emitted |-> <<>>, failed |-> FALSE,
                                   failedAt |-> 0])
    /\ UNCHANGED <<csVars, otherVars, lib, storeSubs, isStoreConfigured, featureReducers, metaReducers,
                   hasUndoExtension, appState, nextRef, queue, phase, dispatched,
                   reduced, lastCall>>

\* the effect's source emits a value: the subscriber of effect() runs
EffectEmit(e, t) ==
    /\ CanCall
    /\ UNCHANGED configureCalls
    /\ e \in 1..Len(effects)
    /\ effectSubscribed(effects, e)
    /\ calls' = calls + 1
    /\ effects' = [effects EXCEPT ![e].emitted = Append(@, t)]
    /\ IF shouldDispatch(effects[e].meta)
       THEN dispatch(t, NoKey, e)
       ELSE NoDispatch
    /\ UNCHANGED <<csVars, otherVars, lib, storeSubs, isStoreConfigured, featureReducers, metaReducers,
                   hasUndoExtension, appState, nextRef, reduced, lastCall>>

\* the effect's source fails: defaultEffectsErrorHandler turns the failure into
\* the end of that effect's subscription (failedAt: actions dispatched so far)
EffectFail(e) ==
    /\ phase \in {"idle", "notify"}
    /\ e \in 1..Len(effects)
    /\ effectSubscribed(effects, e)
    /\ effects' = [effects EXCEPT ![e].failed = TRUE, ![e].failedAt = Len(dispatched)]
    /\ UNCHANGED <<csVars, otherVars, lib, storeSubs, isStoreConfigured, featureReducers, metaReducers,
                   hasUndoExtension, appState, nextRef, queue, phase, dispatched,
                   reduced, lastCall, configureCalls, calls>>

\* registering an API effect cancels the calls in flight
RegisterApiEffectCancelsCalls(trigger) ==
    /\ phase \in {"idle", "notify"}
    /\ Len(effects) < MaxEffects
    /\ \A p \in fxRequests.pipes : p.ofType # trigger
    /\ effects' = Append(effects, [meta |-> "none", emitted |-> <<>>, failed |-> FALSE,
                                   failedAt |-> 0])
    /\ fxRequests' = [fxRequests EXCEPT
                         !.pipes = @ \cup {[e |-> Len(effects) + 1, ofType |-> trigger,
                                            at |-> Len(reduced)]},
                         !.busy = {}]
    /\ UNCHANGED <<csVars, selVars, csOther, thrown, reducedWith, stateEmissions>>
    /\ UNCHANGED <<lib, storeSubs, isStoreConfigured, featureReducers, metaReducers,
                   hasUndoExtension, appState, nextRef, queue, phase, dispatched,
                   reduced, lastCall, configureCalls, calls>>

\* effect(actions$.pipe(ofType(trigger), mergeMap(() => api().pipe(map(success)))))
\* at: the number of actions reduced when the effect was registered
RegisterApiEffect(trigger) ==
    /\ phase \in {"idle", "notify"}
    /\ Len(effects) < MaxEffects
    /\ \A p \in fxRequests.pipes : p.ofType # trigger
    /\ effects' = Append(effects, [meta |-> "none", emitted |-> <<>>, failed |-> FALSE,
                                   failedAt |-> 0])
    /\ fxRequests' = [fxRequests EXCEPT
                         !.pipes = @ \cup {[e |-> Len(effects) + 1, ofType |-> trigger,
                                            at |-> Len(reduced)]}]
    /\ UNCHANGED <<csVars, selVars, csOther, thrown, reducedWith, stateEmissions>>
    /\ UNCHANGED <<lib, storeSubs, isStoreConfigured, featureReducers, metaReducers,
                   hasUndoExtension, appState, nextRef, queue, phase, dispatched,
                   reduced, lastCall, configureCalls, calls>>

\* the API call an effect started for a trigger action answers in a task of
\* its own (no action is being processed): the effect emits the success
\* action and its subscriber dispatches it
EffectResolve(r) ==
    /\ phase = "idle"
    /\ r \in fxRequests.busy
    /\ effectSubscribed(effects, r.e)
    /\ LET type == SuccessType(dispatched[r.trigger].type)
       IN /\ effects' = [effects EXCEPT ![r.e].emitted = Append(@, type)]
          /\ IF shouldDispatch(effects[r.e].meta)
             THEN dispatch(type, NoKey, r.e)
             ELSE NoDispatch
    /\ fxRequests' = [fxRequests EXCEPT
                         !.busy = @ \ {r},
                         !.resolved = Append(@, [e |-> r.e, trigger |-> r.trigger,
                                                 action |-> Len(dispatched) + 1])]
    /\ UNCHANGED <<csVars, selVars, csOther, thrown, reducedWith, stateEmissions>>
    /\ UNCHANGED <<lib, storeSubs, isStoreConfigured, featureReducers, metaReducers,
                   hasUndoExtension, appState, nextRef, reduced, lastCall,
                   configureCalls, calls>>

-----------------------------------------------------------------------------
(* Component store: createComponentStore, globalCsConfig *)

\* the extension objects of a list given at one level ("global" | "local")
ExtObjects(l, level) == [i \in 1..Len(l) |-> [id |-> l[i], level |-> level]]

ExtIds(exts) == [i \in 1..Len(exts) |-> exts[i].id]

\* the global extensions only
mergeGlobalOnly(global, local) == global

\* global entries first, the local ones of other kinds after them
mergeGlobalFirst(global, local) ==
    global \o SelectSeq(local, LAMBDA x : \A i \in 1..Len(global) : global[i].id # x.id)

\* the local extensions, then the global extensions of the kinds that are not
\* supplied locally
mergeComponentStoreExtensions(global, local) ==
    local \o SelectSeq(global, LAMBDA g : \A i \in 1..Len(local) : local[i].id # g.id)

CounterInitialState == [counter |-> 1]

UserState == [counter |-> 1, firstName |-> "Steven"]

CsInitialStates == {CounterInitialState, UserState}

\* the arguments of update: the callback state => ({counter: state.counter + 1})
\* and the object {firstName: 'Nicolas'}
PatchKinds == {"increment", "setFirstName"}

UpdateNames == {NoKey, "increment"}

PatchOf(pk, state) ==
    IF pk = "increment" THEN [counter |-> state.counter + 1]
    ELSE [firstName |-> "Nicolas"]

\* update that replaces the state by the patch
ReplaceByPatch(state, patch) == patch

\* {...state, ...patch}
MergePatch(state, patch) ==
    [f \in DOMAIN state \cup DOMAIN patch |->
        IF f \in DOMAIN patch THEN patch[f] ELSE state[f]]

ComponentStoreNs == "@mini-rx/component-store"

\* type of the action of update(stateOrCallback, name?)
csSetStateActionType(name) == actionType(ComponentStoreNs, "set-state", name)

\* subscriptions the component store holds: connect bindings and its effect
CsSubscriptions ==
    IF csDestroyed THEN 0
    ELSE Len(csConnections) + (IF csEffect.registered THEN 1 ELSE 0)

\* an action on the component store's action stream; value is the value of a
\* connection action, subs the subscriptions held when it was dispatched
CsAction(type, pk) ==
    [type |-> type, patch |-> pk, value |-> Undef, subs |-> CsSubscriptions]

\* globalCsConfig.set(config) that overwrites a configuration already set
GlobalCsConfigSetOverwrite(l) ==
    /\ globalCsConfig' = [set |-> TRUE, extensions |-> ExtObjects(l, "global")]
    /\ csLastCall' = CsExtCall("set", "none", l)
    /\ UNCHANGED <<csCreated, csExtensions, csHasUndoExtension, csState, csActions,
                   csCalls>>
    /\ UNCHANGED <<storeVars, csLifeVars, otherVars>>

\* globalCsConfig.set({extensions: l})
GlobalCsConfigSet(l) ==
    /\ IF globalCsConfig.set
       THEN /\ csLastCall' = CsExtCall("set", "CalledMultipleTimes", l)
            /\ UNCHANGED globalCsConfig
       ELSE /\ globalCsConfig' = [set |-> TRUE, extensions |-> ExtObjects(l, "global")]
            /\ csLastCall' = CsExtCall("set", "none", l)
    /\ UNCHANGED <<csCreated, csExtensions, csHasUndoExtension, csState, csActions,
                   csCalls>>
    /\ UNCHANGED <<storeVars, csLifeVars, otherVars>>

\* globalCsConfig._resetConfig()
GlobalCsConfigReset ==
    /\ globalCsConfig' = NoCsConfig
    /\ csLastCall' = CsCall("reset", "none")
    /\ UNCHANGED <<csCreated, csExtensions, csHasUndoExtension, csState, csActions,
                   csCalls>>
    /\ UNCHANGED <<storeVars, csLifeVars, otherVars>>

\* createComponentStore(initialState, {extensions: local})
CreateComponentStore(init, local) ==
    /\ ~csCreated
    /\ csCreated' = TRUE
    /\ csExtensions' = mergeComponentStoreExtensions(globalCsConfig.extensions,
                                                     ExtObjects(local, "local"))
    /\ csHasUndoExtension' = (\E i \in 1..Len(csExtensions') : csExtensions'[i].id = "undo")
    /\ csState' = init
    /\ csLastCall' = CsExtCall("create", "none", local)
    /\ UNCHANGED <<globalCsConfig, csActions, csCalls>>
    /\ UNCHANGED <<storeVars, csLifeVars, otherVars>>

\* update that dispatches its action with the store's dispatch
CsUpdateOnStoreQueue(pk, name) ==
    /\ csCreated
    /\ csCalls < MaxCsCalls
    /\ phase \in {"idle", "notify"}
    /\ csCalls' = csCalls + 1
    /\ csState' = MergePatch(csState, PatchOf(pk, csState))
    /\ dispatch("set-state", NoKey, 0)
    /\ csLastCall' = CsCall("update", "none")
    /\ UNCHANGED <<globalCsConfig, csCreated, csExtensions, csHasUndoExtension, csActions,
                   csLifeVars, otherVars>>
    /\ UNCHANGED <<lib, storeSubs, isStoreConfigured, featureReducers, metaReducers,
                   hasUndoExtension, appState, nextRef, reduced, effects, lastCall,
                   configureCalls, calls>>

\* cs.update(stateOrCallback, name?)
CsUpdate(pk, name) ==
    /\ csCreated
    /\ csCalls < MaxCsCalls
    /\ csCalls' = csCalls + 1
    /\ csState' = MergePatch(csState, PatchOf(pk, csState))
    /\ csActions' = Append(csActions, CsAction(csSetStateActionType(name), pk))
    /\ csLastCall' = CsCall("update", "none")
    /\ UNCHANGED <<globalCsConfig, csCreated, csExtensions, csHasUndoExtension>>
    /\ UNCHANGED <<storeVars, csLifeVars, otherVars>>

\* undo that does not look at the capability flag
CsUndoUnchecked ==
    /\ csCreated
    /\ csCalls < MaxCsCalls
    /\ csCalls' = csCalls + 1
    /\ csActions' = Append(csActions, CsAction(createMiniRxActionType("undo", NoKey), "none"))
    /\ csLastCall' = CsCall("undo", "none")
    /\ UNCHANGED <<globalCsConfig, csCreated, csExtensions, csHasUndoExtension, csState>>
    /\ UNCHANGED <<storeVars, csLifeVars, otherVars>>

\* cs.undo(action): throws without an undo extension, otherwise dispatches the
\* undo action (the replay done by the undo extension is not part of the model)
CsUndo ==
    /\ csCreated
    /\ csCalls < MaxCsCalls
    /\ csCalls' = csCalls + 1
    /\ IF csHasUndoExtension
       THEN /\ csActions' = Append(csActions,
                                   CsAction(createMiniRxActionType("undo", NoKey), "none"))
            /\ csLastCall' = CsCall("undo", "none")
       ELSE /\ csLastCall' = CsCall("undo", "NoUndoExtension")
            /\ UNCHANGED csActions
    /\ UNCHANGED <<globalCsConfig, csCreated, csExtensions, csHasUndoExtension, csState>>
    /\ UNCHANGED <<storeVars, csLifeVars, otherVars>>

-----------------------------------------------------------------------------
(* Component store: connect, rxEffect, destroy *)

\* values a source emits
CsValues == {2, 5}

csConnectionActionType(field) == actionType(ComponentStoreNs, "connection", field)

CsDestroyActionType == actionType(ComponentStoreNs, "destroy", NoKey)

CsConnectionAction(field, v) ==
    [CsAction(csConnectionActionType(field), "connection") EXCEPT !.value = v]

\* the subscriptions are never released
csSubscribedForever == TRUE

\* the subscriptions of connect and rxEffect last until destroy()
csSubscribed == ~csDestroyed

\* the newest emission is applied first
nextEmissionNewest(conn) == conn.emitted[Len(conn.emitted)]

\* emissions are applied in the order in which the source emitted them
nextEmission(conn) == conn.emitted[conn.delivered + 1]

\* cs.connect({field: source})
CsConnect(field) ==
    /\ csCreated
    /\ csSubscribed
    /\ csConnections = <<>>
    /\ csConnections' = <<[field |-> field, emitted |-> <<>>, delivered |-> 0]>>
    /\ csLastCall' = CsCall("connect", "none")
    /\ UNCHANGED <<globalCsConfig, csCreated, csExtensions, csHasUndoExtension, csState,
                   csActions, csCalls, csDestroyed, csEffect>>
    /\ UNCHANGED <<storeVars, otherVars>>

\* the source of a connection emits v (the source outlives the component store)
CsSourceEmit(c, v) ==
    /\ c \in 1..Len(csConnections)
    /\ csCalls < MaxCsCalls
    /\ csCalls' = csCalls + 1
    /\ csConnections' = [csConnections EXCEPT ![c].emitted = Append(@, v)]
    /\ csLastCall' = CsCall("emit", "none")
    /\ UNCHANGED <<globalCsConfig, csCreated, csExtensions, csHasUndoExtension, csState,
                   csActions, csDestroyed, csEffect>>
    /\ UNCHANGED <<storeVars, otherVars>>

\* the subscriber of a connection receives the next emission: the field is
\* updated as by update and a connection action is dispatched
CsDeliver(c) ==
    /\ c \in 1..Len(csConnections)
    /\ csSubscribed
    /\ csConnections[c].delivered < Len(csConnections[c].emitted)
    /\ LET conn == csConnections[c]
           v == nextEmission(conn)
       IN /\ csState' = MergePatch(csState, [f \in {conn.field} |-> v])
          /\ csActions' = Append(csActions, CsConnectionAction(conn.field, v))
    /\ csConnections' = [csConnections EXCEPT ![c].delivered = @ + 1]
    /\ UNCHANGED <<globalCsConfig, csCreated, csExtensions, csHasUndoExtension,
                   csLastCall, csCalls, csDestroyed, csEffect>>
    /\ UNCHANGED <<storeVars, otherVars>>

\* cs.rxEffect(pipe(tap(effectCallback)))
CsRegisterEffect ==
    /\ csCreated
    /\ csSubscribed
    /\ ~csEffect.registered
    /\ csEffect' = [csEffect EXCEPT !.registered = TRUE]
    /\ csLastCall' = CsCall("rxEffect", "none")
    /\ UNCHANGED <<globalCsConfig, csCreated, csExtensions, csHasUndoExtension, csState,
                   csActions, csCalls, csDestroyed, csConnections>>
    /\ UNCHANGED <<storeVars, otherVars>>

\* the effect is triggered with v, by its source or by calling it
CsEffectTrigger(v, via) ==
    /\ csEffect.registered
    /\ csCalls < MaxCsCalls
    /\ csCalls' = csCalls + 1
    /\ csEffect' = [csEffect EXCEPT !.pending = Append(@, [value |-> v, via |-> via])]
    /\ csLastCall' = CsCall("trigger", "none")
    /\ UNCHANGED <<globalCsConfig, csCreated, csExtensions, csHasUndoExtension, csState,
                   csActions, csDestroyed, csConnections>>
    /\ UNCHANGED <<storeVars, otherVars>>

\* the effect's pipeline runs for the next trigger: effectCallback(v)
CsEffectRun ==
    /\ csSubscribed
    /\ csEffect.pending # <<>>
    /\ csEffect' = [csEffect EXCEPT !.pending = Tail(@),
                                    !.calls = Append(@, Head(csEffect.pending).value)]
    /\ UNCHANGED <<globalCsConfig, csCreated, csExtensions, csHasUndoExtension, csState,
                   csActions, csLastCall, csCalls, csDestroyed, csConnections>>
    /\ UNCHANGED <<storeVars, otherVars>>

\* destroy that releases the subscriptions before it dispatches
CsDestroyReleaseFirst ==
    /\ csCreated
    /\ csCalls < MaxCsCalls
    /\ csCalls' = csCalls + 1
    /\ csLastCall' = CsCall("destroy", "none")
    /\ IF csDestroyed
       THEN UNCHANGED <<csActions, csDestroyed>>
       ELSE /\ csActions' = Append(csActions,
                                   [CsAction(CsDestroyActionType, "none") EXCEPT !.subs = 0])
            /\ csDestroyed' = TRUE
    /\ UNCHANGED <<globalCsConfig, csCreated, csExtensions, csHasUndoExtension, csState,
                   csConnections, csEffect>>
    /\ UNCHANGED <<storeVars, otherVars>>

\* destroy that dispatches the destroy action on every call
CsDestroyAgain ==
    /\ csCreated
    /\ csCalls < MaxCsCalls
    /\ csCalls' = csCalls + 1
    /\ csLastCall' = CsCall("destroy", "none")
    /\ csActions' = Append(csActions, CsAction(CsDestroyActionType, "none"))
    /\ csDestroyed' = TRUE
    /\ UNCHANGED <<globalCsConfig, csCreated, csExtensions, csHasUndoExtension, csState,
                   csConnections, csEffect>>
    /\ UNCHANGED <<storeVars, otherVars>>

\* cs.destroy(): dispatch the destroy action, then release the subscriptions;
\* a second call does nothing
CsDestroy ==
    /\ csCreated
    /\ csCalls < MaxCsCalls
    /\ csCalls' = csCalls + 1
    /\ csLastCall' = CsCall("destroy", "none")
    /\ IF csDestroyed
       THEN UNCHANGED <<csActions, csDestroyed>>
       ELSE /\ csActions' = Append(csActions, CsAction(CsDestroyActionType, "none"))
            /\ csDestroyed' = TRUE
    /\ UNCHANGED <<globalCsConfig, csCreated, csExtensions, csHasUndoExtension, csState,
                   csConnections, csEffect>>
    /\ UNCHANGED <<storeVars, otherVars>>

-----------------------------------------------------------------------------
(* Selectors: createSelector, createComponentStateSelector *)

\* values of cs.update({counter: v})
SelValues == {1, 2, 3}

\* no memoization: the inputs never count as the ones seen last time
sameInputNever(n, a, b) == FALSE

\* strict equality (===) of a node's input with the input it saw last time:
\* identity for the state object, equality for a number
sameInput(n, a, b) == IF n = "getCounter" THEN a.ref = b.ref ELSE a = b

\* the combiners: state => state.counter and counter => counter * 2
combiner(n, x) == IF n = "getCounter" THEN x.counter ELSE x * 2

\* what the spy in a combiner records
combinerArg(n, x) == IF n = "getCounter" THEN x.counter ELSE x

\* a node that keeps the first pair it cached and never replaces it
readNodeKeepFirst(cache, n, input) ==
    IF cache.valid /\ sameInput(n, cache.in, input)
    THEN [cache |-> cache, called |-> FALSE]
    ELSE [cache |-> IF cache.valid THEN [cache EXCEPT !.out = combiner(n, input)]
                    ELSE [valid |-> TRUE, in |-> input, out |-> combiner(n, input)],
          called |-> TRUE]

\* reading a node with the output of its source selector
readNode(cache, n, input) ==
    IF cache.valid /\ sameInput(n, cache.in, input)
    THEN [cache |-> cache, called |-> FALSE]
    ELSE [cache |-> [valid |-> TRUE, in |-> input, out |-> combiner(n, input)],
          called |-> TRUE]

\* cs.update({counter: v}): a new state object
SelUpdate(v) ==
    /\ selOps < MaxSelOps
    /\ selOps' = selOps + 1
    /\ selState' = [ref |-> selState.ref + 1, counter |-> v]
    /\ UNCHANGED <<selNodes, selCalls>>
    /\ UNCHANGED <<storeVars, csVars, csOther, thrown, reducedWith, stateEmissions, fxRequests>>

\* selectedState(): read getSquareCounter, which reads getCounter
SelRead ==
    /\ selOps < MaxSelOps
    /\ selOps' = selOps + 1
    /\ LET r1 == readNode(selNodes["getCounter"], "getCounter", selState)
           r2 == readNode(selNodes["getSquareCounter"], "getSquareCounter",
                          r1.cache.out)
       IN /\ selNodes' = [n \in SelectorNodes |->
                            IF n = "getCounter" THEN r1.cache ELSE r2.cache]
          /\ selCalls' = [n \in SelectorNodes |->
                            IF n = "getCounter"
                            THEN IF r1.called
                                 THEN Append(selCalls[n], combinerArg(n, selState))
                                 ELSE selCalls[n]
                            ELSE IF r2.called
                                 THEN Append(selCalls[n], combinerArg(n, r1.cache.out))
                                 ELSE selCalls[n]]
    /\ UNCHANGED selState
    /\ UNCHANGED <<storeVars, csVars, csOther, thrown, reducedWith, stateEmissions, fxRequests>>

-----------------------------------------------------------------------------
(* A second component store next to the first one and to the store *)

\* createComponentStore(counterInitialState) for the second component store
CreateOtherComponentStore ==
    /\ ~csOther.created
    /\ csOther' = [created |-> TRUE, state |-> CounterInitialState, actions |-> <<>>]
    /\ UNCHANGED <<storeVars, csVars, selVars, thrown, reducedWith, stateEmissions, fxRequests>>

\* update of the second component store
CsOtherUpdate(pk) ==
    /\ csOther.created
    /\ csOther.actions = <<>>
    /\ csOther' = [csOther EXCEPT
                      !.state = MergePatch(@, PatchOf(pk, csOther.state)),
                      !.actions = Append(@, CsAction(csSetStateActionType(NoKey), pk))]
    /\ UNCHANGED <<storeVars, csVars, selVars, thrown, reducedWith, stateEmissions, fxRequests>>

-----------------------------------------------------------------------------

Next ==
    \/ \E t \in UserTypes : Dispatch(t)
    \/ \E cfg \in Configs : ConfigureStore(cfg)
    \/ \E cfg \in Configs : NewStore(cfg)
    \/ \E k \in Keys, rc \in ReducerChoices : AddFeature(k, rc)
    \/ \E k \in Keys : RemoveFeature(k)
    \/ ProcessNext
    \/ EndNotify

Spec == Init /\ [][Next]_vars

NextFx ==
    \/ Dispatch("other")
    \/ \E m \in EffectMetas : RegisterEffect(m)
    \/ \E e \in 1..MaxEffects, t \in UserTypes : EffectEmit(e, t)
    \/ ProcessNext
    \/ EndNotify

SpecFx == Init /\ [][NextFx]_vars

CounterChoice == [kind |-> "counter", init |-> InitialStateValue]

NextFxErr ==
    \/ Dispatch("inc")
    \/ AddFeature("a", CounterChoice)
    \/ RegisterEffect("none")
    \/ \E e \in 1..MaxEffects : EffectEmit(e, "inc")
    \/ \E e \in 1..MaxEffects : EffectFail(e)
    \/ ProcessNext
    \/ EndNotify

SpecFxErr == Init /\ [][NextFxErr]_vars

\* configuration with extension lists
NextExt ==
    \/ \E cfg \in ExtConfigs : ConfigureStore(cfg)
    \/ \E cfg \in ExtConfigs : NewStore(cfg)
    \/ ProcessNext
    \/ EndNotify

SpecExt == Init /\ [][NextExt]_vars

\* a component store with or without an undo extension: update and undo
NextCs ==
    \/ \E init \in CsInitialStates, l \in {<<>>, <<"undo">>} : CreateComponentStore(init, l)
    \/ \E pk \in PatchKinds, name \in UpdateNames : CsUpdate(pk, name)
    \/ CsUndo

SpecCs == Init /\ [][NextCs]_vars

\* the global configuration and the extensions of a component store
NextCsExt ==
    \/ \E l \in ExtLists : GlobalCsConfigSet(l)
    \/ GlobalCsConfigReset
    \/ \E l \in ExtLists : CreateComponentStore(CounterInitialState, l)

SpecCsExt == Init /\ [][NextCsExt]_vars

\* the life of a component store: connect, rxEffect, update, destroy
NextCsLife ==
    \/ CreateComponentStore(CounterInitialState, <<>>)
    \/ CsConnect("counter")
    \/ \E v \in CsValues : CsSourceEmit(1, v)
    \/ CsDeliver(1)
    \/ CsUpdate("increment", NoKey)
    \/ CsRegisterEffect
    \/ \E v \in CsValues, via \in {"source", "call"} : CsEffectTrigger(v, via)
    \/ CsEffectRun
    \/ CsDestroy

SpecCsLife == Init /\ [][NextCsLife]_vars

\* a selector chain read between updates of the state
NextSel ==
    \/ \E v \in SelValues : SelUpdate(v)
    \/ SelRead

SpecSel == Init /\ [][NextSel]_vars

\* the component store belongs to signal-store
InitIso == Init /\ lib = "signal"

\* the store and two component stores side by side
NextIso ==
    \/ AddFeature("a", CounterChoice)
    \/ Dispatch("inc")
    \/ ProcessNext
    \/ EndNotify
    \/ CreateComponentStore(CounterInitialState, <<"undo">>)
    \/ CsUpdate("increment", NoKey)
    \/ CsUndo
    \/ CsConnect("counter")
    \/ CsSourceEmit(1, 5)
    \/ CsDeliver(1)
    \/ CsDestroy
    \/ CreateOtherComponentStore
    \/ CsOtherUpdate("increment")

SpecIso == InitIso /\ [][NextIso]_vars

ThrowingChoice == [kind |-> "throwing", init |-> InitialStateValue]

\* a counter slice next to a counter slice whose reducer throws on "boom"
NextThrow ==
    \/ AddFeature("a", CounterChoice)
    \/ AddFeature("b", ThrowingChoice)
    \/ Dispatch("inc")
    \/ Dispatch(ThrowingType)
    \/ ProcessNext
    \/ EndNotify

SpecThrow == Init /\ [][NextThrow]_vars

\* mini-rx-store: select returns an Observable a subscriber listens to
InitMini == Init /\ lib = "mini"

\* a subscriber of select(slice "a") while the counter feature is used
NextSub ==
    \/ AddFeature("a", CounterChoice)
    \/ Dispatch("inc")
    \/ Dispatch("other")
    \/ ProcessNext
    \/ EndNotify

SpecSub == InitMini /\ [][NextSub]_vars

\* the store is destroyed and set up again between dispatches
NextDestroy ==
    \/ AddFeature("a", CounterChoice)
    \/ ConfigureStore(NoConfig)
    \/ NewStore(NoConfig)
    \/ Dispatch("inc")
    \/ destroy
    \/ ProcessNext
    \/ EndNotify

SpecDestroy == Init /\ [][NextDestroy]_vars

\* a reducer without a default parameter, registered without initialState
NoDefaultChoice == [kind |-> "nodefault", init |-> Undef]

\* configureStore({reducers: {a: reducer}, initialState: {b: 3}})
OtherKeyConfig ==
    [NoConfig EXCEPT !.hasReducers = TRUE,
                     !.reducers = <<[key |-> "a", kind |-> "nodefault", init |-> Undef]>>,
                     !.hasInitialState = TRUE,
                     !.initialState = OneSlice("b", InitialStateValue)]

\* snapshots whose keys differ from the registered keys reach the combined
\* reducer: a configured initialState, a removal, a later registration
NextKeys ==
    \/ ConfigureStore(OtherKeyConfig)
    \/ NewStore(OtherKeyConfig)
    \/ \E k \in Keys : AddFeature(k, NoDefaultChoice)
    \/ \E k \in Keys : RemoveFeature(k)
    \/ Dispatch("inc")
    \/ ProcessNext
    \/ EndNotify

SpecKeys == Init /\ [][NextKeys]_vars

\* configureStore / new Store with every configuration, between dispatches
NextCfg ==
    \/ \E cfg \in Configs : ConfigureStore(cfg)
    \/ \E cfg \in Configs : NewStore(cfg)
    \/ Dispatch("inc")
    \/ ProcessNext
    \/ EndNotify

SpecCfg == Init /\ [][NextCfg]_vars

\* names given to update: none, or one that is also a field or an operation
TypeNames == {NoKey, "increment", "counter", "destroy"}

\* every operation of a component store that dispatches an internal action
NextTypes ==
    \/ CreateOtherComponentStore
    \/ CsOtherUpdate("increment")
    \/ CreateComponentStore(CounterInitialState, <<>>)
    \/ \E n \in TypeNames : CsUpdate("increment", n)
    \/ CsConnect("counter")
    \/ CsSourceEmit(1, 5)
    \/ CsDeliver(1)
    \/ CsDestroy

SpecTypes == InitIso /\ [][NextTypes]_vars

UserChoice == [kind |-> "user", init |-> InitialStateValue]

ApiTriggers == {"loadUser", "saveUser"}

\* the user feature with one API effect per trigger, registered at any time
NextApi ==
    \/ AddFeature("a", UserChoice)
    \/ \E t \in ApiTriggers : Dispatch(t)
    \/ \E t \in ApiTriggers : RegisterApiEffect(t)
    \/ \E r \in fxRequests.busy : EffectResolve(r)
    \/ ProcessNext
    \/ EndNotify

SpecApi == InitMini /\ [][NextApi]_vars

-----------------------------------------------------------------------------
(* Vocabulary of the properties *)

StrictlyIncreasing(q) == \A i, j \in 1..Len(q) : i < j => q[i] < q[j]

Occurrences(q, x) == Cardinality({i \in 1..Len(q) : q[i] = x})

IsCall(op) == calls' = calls + 1 /\ lastCall'.op = op

JustReduced == Len(reduced') = Len(reduced) + 1

LastReduced == dispatched[reduced'[Len(reduced')]]

ActionTypes == UserTypes \cup {"init", "destroy"}

-----------------------------------------------------------------------------
\* C1: a dispatch made while another action is being processed is reduced
\* only after that action's reduction and notifications have completed, and
\* actions are reduced one at a time, each once, in the order of the dispatch
\* calls (the ids of the reduced actions followed by the waiting ones are
\* strictly increasing).
C1_ReentrantFifo ==
    [][ /\ (reduced' # reduced => phase = "reduce" /\ phase' = "notify")
        /\ StrictlyIncreasing(reduced' \o queue') ]_vars

C1_Witness ==
    /\ phase = "idle"
    /\ \E i, j \in 1..Len(reduced) :
          /\ i < j
          /\ ~dispatched[reduced[i]].nested
          /\ dispatched[reduced[j]].nested
          /\ dispatched[reduced[j]].type = "inc"

C3_NoActionDropped ==
    phase = "idle" =>
        \A id \in 1..Len(dispatched) : Occurrences(reduced, id) = 1

\* C4: addFeature with an already registered key fails with an error and
\* leaves the registrations, the snapshot, the store subscription and the
\* action stream untouched (nothing is dispatched for the failed call).
C4_DuplicateKeyRejected ==
    [][ IsCall("addFeature") =>
          /\ (lastCall'.key \in KeysOf(featureReducers)
                <=> lastCall'.err = "DuplicateKey")
          /\ (lastCall'.key \in KeysOf(featureReducers) =>
                UNCHANGED <<featureReducers, metaReducers, appState, nextRef,
                            storeSubs, dispatched, queue, phase, reduced>>) ]_vars

C4_Witness ==
    /\ lastCall.op = "addFeature"
    /\ lastCall.err = "DuplicateKey"
    /\ lastCall.key \in StateKeys(appState)

\* some configureStore call has succeeded: it dispatched the store INIT action
ConfiguredBefore ==
    \E id \in 1..Len(dispatched) :
        dispatched[id].type = "init" /\ dispatched[id].key = NoKey

\* C5: every configureStore call made after a successful one fails with
\* AlreadyConfigured and does no configuration work: no meta-reducer or
\* extension is added, no reducer replaced, no initial state set and no INIT
\* action dispatched (for every entry point, the Store class included).
C5_ConfigureOnlyOnce ==
    [][ (IsCall("configureStore") /\ ConfiguredBefore) =>
          /\ lastCall'.err = "AlreadyConfigured"
          /\ UNCHANGED <<metaReducers, hasUndoExtension, featureReducers,
                         appState, dispatched>> ]_vars

SlicesKept ==
    \A k \in StateKeys(appState) :
        k \in StateKeys(appState') /\ appState'.slices[k] = appState.slices[k]

FirstConfigureAfterAddFeature ==
    /\ IsCall("configureStore")
    /\ configureCalls = 0
    /\ hasFeatureReducers(featureReducers)

\* C6 (as stated): when slices were registered first, the first call to
\* configureStore succeeds without error and loses neither a registered
\* slice nor its state.
C6_ConfigureAfterAddFeatureSucceeds ==
    [][ FirstConfigureAfterAddFeature =>
          /\ lastCall'.err = "none"
          /\ KeysOf(featureReducers) \subseteq KeysOf(featureReducers')
          /\ SlicesKept ]_vars

\* C6 (amended): addFeature before configureStore initialises the store
\* lazily (one subscription) and the slice's init action is queued and
\* reduced, never dropped. A following first configureStore fails in
\* mini-rx-store with the "detected reducers" error and changes neither the
\* registrations nor the snapshot; in signal-store it succeeds, keeps the
\* registered slices unless config.reducers is given and keeps the snapshot
\* unless config.initialState is given.
C6_LazyInitThenConfigure ==
    [][ /\ (IsCall("addFeature") /\ lastCall'.err = "none" =>
              /\ storeSubs' = 1
              /\ Len(dispatched) + 1 \in Range(queue'))
        /\ (\A id \in 1..Len(dispatched') :
              (dispatched'[id].type = "init" /\ dispatched'[id].key # NoKey) =>
                  Occurrences(reduced' \o queue', id) = 1)
        /\ (FirstConfigureAfterAddFeature /\ lib = "mini" =>
              /\ lastCall'.err = "ReducersDetected"
              /\ UNCHANGED <<featureReducers, metaReducers, appState, dispatched,
                             storeSubs, isStoreConfigured>>)
        /\ (FirstConfigureAfterAddFeature /\ lib = "signal" =>
              /\ lastCall'.err = "none"
              /\ storeSubs' = 1
              /\ (~lastCall'.cfg.hasReducers => featureReducers' = featureReducers)
              /\ (~lastCall'.cfg.hasInitialState => appState' = appState)) ]_vars

C6_Witness ==
    /\ phase = "idle"
    /\ lastCall.op = "configureStore"
    /\ configureCalls = 1
    /\ hasFeatureReducers(featureReducers)
    /\ \E k \in StateKeys(appState) : appState.slices[k] = InitialStateValue + 1
    /\ dispatched[1].type = "init" /\ dispatched[1].key # NoKey

ReducesDestroy ==
    /\ JustReduced
    /\ LastReduced.type = "destroy"

\* C7 (as stated): the slice-destroyed action is dispatched first, so when it
\* is reduced for a slice whose last state is still in the snapshot, that
\* slice's reducer is still registered and processes it; the reducer is
\* unregistered only afterwards.
C7_DestroyReducedBySlice ==
    [][ (ReducesDestroy /\ LastReduced.key \in StateKeys(appState)) =>
          LastReduced.key \in KeysOf(featureReducers) ]_vars

\* C7 (amended): removeFeature(key) first unregisters the slice's reducer
\* (the other registrations and the snapshot are untouched by the call) and
\* then dispatches the slice-destroyed action; the slice's reducer never
\* processes that action, and its reduction by the recombined reducer
\* removes every unregistered key, key included, from the snapshot.
C7_UnregisterThenDestroy ==
    [][ /\ (IsCall("removeFeature") =>
              /\ featureReducers' = removeFeatureReducer(featureReducers, lastCall'.key)
              /\ lastCall'.key \notin KeysOf(featureReducers')
              /\ appState' = appState
              /\ dispatched' = Append(dispatched,
                                      Action("destroy", lastCall'.key, 0)))
        /\ (ReducesDestroy => StateKeys(appState') = KeysOf(featureReducers)) ]_vars

C7_Witness ==
    /\ phase = "notify"
    /\ lastCall.op = "removeFeature"
    /\ lastCall.key \notin StateKeys(appState)
    /\ StateKeys(appState) # {}
    /\ Len(reduced) >= 3
    /\ dispatched[reduced[Len(reduced)]].type = "destroy"
    /\ \E i \in 1..Len(reduced) :
          /\ dispatched[reduced[i]].type = "init"
          /\ dispatched[reduced[i]].key = lastCall.key

\* the init action of a successful addFeature made outside of any action
\* processing is being reduced
ReducesTopLevelFeatureInit ==
    /\ JustReduced
    /\ LastReduced.type = "init"
    /\ LastReduced.key # NoKey
    /\ ~LastReduced.nested
    /\ lastCall.op = "addFeature" /\ lastCall.err = "none"

\* C8: a successful addFeature made outside of any action processing
\* dispatches exactly one slice-initialized action whose type encodes the
\* key; its reduction, which completes before the call returns, adds the key
\* to the snapshot with the given initialState (or the reducer's default) and
\* leaves every other slice's state unchanged.
C8_AddFeatureSeedsSlice ==
    [][ /\ (IsCall("addFeature") /\ lastCall'.err = "none" /\ phase = "idle" =>
              /\ dispatched' = Append(dispatched, Action("init", lastCall'.key, 0))
              /\ TypeOf(dispatched'[Len(dispatched')])
                    = "@mini-rx/init/" \o lastCall'.key
              /\ queue' = <<Len(dispatched')>>
              /\ phase' = "reduce"
              /\ lastCall'.key \notin StateKeys(appState))
        /\ (ReducesTopLevelFeatureInit =>
              /\ LastReduced.key = lastCall.key
              /\ StateKeys(appState') = StateKeys(appState) \cup {lastCall.key}
              /\ appState'.slices[lastCall.key]
                    = (IF lastCall.init # Undef THEN lastCall.init ELSE ReducerDefault)
              /\ \A k \in StateKeys(appState) :
                    appState'.slices[k] = appState.slices[k]) ]_vars

C8_Witness ==
    /\ phase = "idle"
    /\ lastCall.op = "addFeature" /\ lastCall.err = "none"
    /\ Cardinality(StateKeys(appState)) = 2
    /\ appState.slices[lastCall.key] = InitialStateValue
    /\ \E k \in StateKeys(appState) : appState.slices[k] = ReducerDefault
    /\ Len(reduced) = 2

NoSliceChanges(t) ==
    \A k \in KeysOf(featureReducers) :
        NextSlices(featureReducers, appState, t)[k] = PrevForKey(appState, k)

\* C9: the combined reducer returns the very snapshot object it was given
\* whenever no slice reducer returns a value different from the slice's
\* previous value and the key set is unchanged; so two applications to the
\* same snapshot and action then give reference-equal results.
C9_NoOpReturnsSameReference ==
    \A t \in ActionTypes :
        (NoSliceChanges(t) /\ StateKeys(appState) = KeysOf(featureReducers)) =>
            /\ combineReducers(featureReducers, appState, t, nextRef) = appState
            /\ combineReducers(featureReducers, appState, t, nextRef).ref
                  = combineReducers(featureReducers, appState, t, nextRef + 1).ref

C9_Witness ==
    /\ phase = "notify"
    /\ Len(featureReducers) = 1
    /\ StateKeys(appState) = KeysOf(featureReducers)
    /\ Len(reduced) = 3
    /\ dispatched[reduced[2]].type = "inc"
    /\ dispatched[reduced[3]].type = "other"
    /\ appState.ref = nextRef - 1
    /\ \E k \in StateKeys(appState) : appState.slices[k] = InitialStateValue + 1

DispatchedBy(e) == SelectSeq(dispatched, LAMBDA a : a.src = e)

\* C10: every value emitted by a registered effect is passed to dispatch
\* exactly once and in emission order, unless the effect is marked
\* non-dispatching, in which case none of its values is dispatched.
C10_EffectValuesDispatched ==
    \A e \in 1..Len(effects) :
        IF effects[e].meta = "nodispatch"
        THEN DispatchedBy(e) = <<>>
        ELSE /\ Len(DispatchedBy(e)) = Len(effects[e].emitted)
             /\ \A i \in 1..Len(effects[e].emitted) :
                   DispatchedBy(e)[i].type = effects[e].emitted[i]

C10_Witness ==
    /\ Len(effects) = 1
    /\ effects[1].meta = "none"
    /\ effects[1].emitted = <<"other", "inc">>
    /\ Len(DispatchedBy(1)) = 2
    /\ Len(dispatched) = 3
    /\ dispatched[2].src = 0
    /\ phase = "idle"


-----------------------------------------------------------------------------
\* the first "init" action: the store subscribes to the action stream in the
\* call that dispatches it
SubscribedFrom(id) == \E j \in 1..id : dispatched[j].type = "init"

\* C11: once the source of an effect has failed, the queue still has an action
\* to deliver whenever the drain loop runs, every action dispatched after the
\* failure is reduced exactly once when the queue has drained, and every other
\* effect that has not failed itself can still emit and dispatch.
C11_EffectFailureIsolated ==
    \A f \in 1..Len(effects) :
        effects[f].failed =>
            /\ phase = "reduce" => queue # <<>>
            /\ \A e \in 1..Len(effects) :
                  (e # f /\ ~effects[e].failed /\ CanCall)
                      => ENABLED EffectEmit(e, "inc")
            /\ (phase = "idle" /\ storeSubs > 0) =>
                  \A id \in (effects[f].failedAt + 1)..Len(dispatched) :
                      SubscribedFrom(id) => Occurrences(reduced, id) = 1

C11_Witness ==
    /\ Len(effects) = 2
    /\ effects[1].failed
    /\ ~effects[2].failed
    /\ phase = "idle"
    /\ \E i, j \in (effects[1].failedAt + 1)..Len(dispatched) :
          /\ dispatched[i].src = 2
          /\ dispatched[j].src = 0
          /\ dispatched[j].type = "inc"
          /\ Occurrences(reduced, i) = 1
          /\ Occurrences(reduced, j) = 1

-----------------------------------------------------------------------------
IsCsCall(op) == csCalls' = csCalls + 1 /\ csLastCall'.op = op

\* C13: undo on a component store without an undo extension fails with the
\* error of the missing extension, dispatches no action and leaves the state
\* of the component store as it was.
C13_UndoWithoutExtensionThrows ==
    [][ (IsCsCall("undo") /\ ~csHasUndoExtension) =>
          /\ csLastCall'.err = "NoUndoExtension"
          /\ UNCHANGED <<csState, csActions>> ]_vars

C13_Witness ==
    /\ csCreated
    /\ ~csHasUndoExtension
    /\ csLastCall = CsCall("undo", "NoUndoExtension")
    /\ Len(csActions) = 1
    /\ csState = [counter |-> 2]


-----------------------------------------------------------------------------
\* C14: when configureStore has installed a non-empty extension list, the flag
\* hasUndoExtension is true exactly if the list contains the undo extension.
C14_UndoFlagIffInstalled ==
    [][ (IsCall("configureStore") /\ lastCall'.err = "none"
            /\ lastCall'.cfg.extensions # <<>>) =>
          (hasUndoExtension' <=> "undo" \in Range(lastCall'.cfg.extensions)) ]_vars


-----------------------------------------------------------------------------
IsPermutation(p, l) == Len(p) = Len(l) /\ Range(p) = Range(l)

C16_ImmutableAlwaysLast ==
    "immutable" \in Range(metaReducers) => metaReducers[Len(metaReducers)] = "immutable"


-----------------------------------------------------------------------------
IsCreate == ~csCreated /\ csCreated'

IdsOf(exts) == Range(ExtIds(exts))

EntriesOfKind(exts, k) == {i \in 1..Len(exts) : exts[i].id = k}

\* C17: the extension list of a new component store has one entry for every
\* kind given globally or locally and none for any other kind, the entry of a
\* kind given locally is the local one, and the list is the local list when
\* no global extensions are set and the global list when no local ones are
\* given.
C17_MergeLocalOverGlobal ==
    [][ IsCreate =>
          LET g == globalCsConfig.extensions
              l == ExtObjects(csLastCall'.exts, "local")
              m == csExtensions'
          IN /\ \A k \in ExtensionIds :
                   Cardinality(EntriesOfKind(m, k)) =
                       IF k \in IdsOf(g) \cup IdsOf(l) THEN 1 ELSE 0
             /\ \A i \in 1..Len(m) :
                   m[i].level = IF m[i].id \in IdsOf(l) THEN "local" ELSE "global"
             /\ (g = <<>> => m = l)
             /\ (l = <<>> => m = g) ]_vars

C17_Witness ==
    /\ csCreated
    /\ csLastCall = CsExtCall("create", "none", <<"logger">>)
    /\ ExtIds(globalCsConfig.extensions) = <<"logger", "immutable">>
    /\ csExtensions = <<[id |-> "logger", level |-> "local"],
                        [id |-> "immutable", level |-> "global"]>>

IsCsConfigCall(op) == csLastCall'.op = op /\ csLastCall' # csLastCall

\* C19: globalCsConfig.set fails when a configuration is already set, and then
\* the configuration stays the one set first; when none is set it stores the
\* given one; _resetConfig leaves no configuration set.
C19_GlobalConfigSetOnce ==
    [][ /\ IsCsConfigCall("set") =>
              IF globalCsConfig.set
              THEN /\ csLastCall'.err = "CalledMultipleTimes"
                   /\ UNCHANGED globalCsConfig
              ELSE /\ csLastCall'.err = "none"
                   /\ globalCsConfig'.set
                   /\ ExtIds(globalCsConfig'.extensions) = csLastCall'.exts
        /\ IsCsConfigCall("reset") => ~globalCsConfig'.set ]_vars

C19_Witness ==
    /\ csLastCall = CsExtCall("set", "CalledMultipleTimes", <<"undo">>)
    /\ globalCsConfig.set
    /\ ExtIds(globalCsConfig.extensions) = <<"logger", "immutable">>

Increments(actions) == Len(SelectSeq(actions, LAMBDA a : a.patch = "increment"))

\* C20: update replaces the state by the state merged with the patch computed
\* from the state at the time of the call and adds one set-state action to the
\* action stream; a component store started with counter 1 that has only been
\* updated has counter 1 + n after n increments.
C20_UpdateMergesPatch ==
    [][ IsCsCall("update") =>
          LET a == csActions'[Len(csActions')]
              patch == PatchOf(a.patch, csState)
          IN /\ Len(csActions') = Len(csActions) + 1
             /\ \E n \in UpdateNames : a.type = csSetStateActionType(n)
             /\ DOMAIN csState' = DOMAIN csState \cup DOMAIN patch
             /\ \A f \in DOMAIN csState' :
                   csState'[f] = IF f \in DOMAIN patch THEN patch[f] ELSE csState[f]
             /\ (\A i \in 1..Len(csActions') :
                    \E n \in UpdateNames : csActions'[i].type = csSetStateActionType(n))
                    => csState'.counter = 1 + Increments(csActions') ]_vars

C20_Witness ==
    /\ csState = [counter |-> 3, firstName |-> "Nicolas"]
    /\ Len(csActions) = 3
    /\ csActions[1].patch = "increment"
    /\ csActions[2].patch = "setFirstName"
    /\ csActions[3].type = csSetStateActionType("increment")


-----------------------------------------------------------------------------
ConnectionActions(actions, field) ==
    SelectSeq(actions, LAMBDA a : a.type = csConnectionActionType(field))

IsDeliver(c) ==
    /\ c \in 1..Len(csConnections)
    /\ csConnections'[c].delivered = csConnections[c].delivered + 1

\* C21: the connection actions of a field are, in order, the emissions of the
\* source delivered so far, one action per emission carrying its value; a
\* delivery sets the field to the emission and leaves the other fields, and an
\* update that follows computes from the state the delivery left.
C21_ConnectAppliesEmissionsInOrder ==
    [][ \A c \in 1..Len(csConnections') :
          LET conn == csConnections'[c]
              acts == ConnectionActions(csActions', conn.field)
          IN /\ Len(acts) = conn.delivered
             /\ \A i \in 1..Len(acts) : acts[i].value = conn.emitted[i]
             /\ IsDeliver(c) =>
                   /\ csState'[conn.field] = conn.emitted[conn.delivered]
                   /\ \A f \in DOMAIN csState \ {conn.field} : csState'[f] = csState[f]
                   /\ Len(csActions') = Len(csActions) + 1
             /\ (IsCsCall("update") /\ csActions'[Len(csActions')].patch = "increment"
                    /\ conn.delivered > 0
                    /\ csActions[Len(csActions)].type = csConnectionActionType(conn.field))
                   => csState'.counter = conn.emitted[conn.delivered] + 1 ]_vars

C21_Witness ==
    /\ Len(csConnections) = 1
    /\ csConnections[1].emitted = <<2, 5>>
    /\ csConnections[1].delivered = 2
    /\ Len(csActions) = 3
    /\ csActions[2].value = 5
    /\ csActions[3].patch = "increment"
    /\ csState = [counter |-> 6]

\* C22: once destroy has run, no step other than a call of update changes the
\* state of the component store or adds an action to its stream, and the
\* effect callback is not invoked again, whatever the sources emit and however
\* the effect is triggered, also for values emitted before destroy and not yet
\* delivered.
C22_NoActivityAfterDestroy ==
    [][ csDestroyed =>
          /\ csDestroyed'
          /\ csEffect'.calls = csEffect.calls
          /\ IsCsCall("update") \/ UNCHANGED <<csState, csActions>> ]_vars

C22_Witness ==
    /\ csDestroyed
    /\ Len(csConnections) = 1
    /\ csConnections[1].emitted = <<2>>
    /\ csConnections[1].delivered = 0
    /\ csState = CounterInitialState
    /\ csEffect.pending = <<[value |-> 5, via |-> "call"]>>
    /\ csEffect.calls = <<>>
    /\ Len(csActions) = 1

IsFirstDestroy == IsCsCall("destroy") /\ ~csDestroyed

\* C23: the first destroy adds exactly one action, of the destroy type, to
\* the action stream of the component store, and the action is dispatched
\* while the subscriptions of connect and rxEffect are still held.
C23_DestroyDispatchesThenReleases ==
    [][ IsFirstDestroy =>
          /\ csDestroyed'
          /\ Len(csActions') = Len(csActions) + 1
          /\ csActions'[Len(csActions')].type = CsDestroyActionType
          /\ csActions'[Len(csActions')].subs =
                Len(csConnections) + (IF csEffect.registered THEN 1 ELSE 0)
          /\ \A i \in 1..Len(csActions) : csActions'[i] = csActions[i] ]_vars

C23_Witness ==
    /\ csDestroyed
    /\ csActions[Len(csActions)].type = CsDestroyActionType
    /\ csActions[Len(csActions)].subs = 2
    /\ Len(csActions) = 2

-----------------------------------------------------------------------------
IsSelRead == selOps' = selOps + 1 /\ selState' = selState

Called(n) == Len(selCalls'[n]) - Len(selCalls[n])

\* C25: on a read the combiner of getCounter runs once if the state object is
\* not the one it saw last time and not at all otherwise, and the combiner of
\* getSquareCounter runs once if the output of getCounter is not equal to the
\* one it saw last time and not at all otherwise; an update runs no combiner.
C25_CombinerRunsOnlyOnChangedInput ==
    [][ /\ IsSelRead =>
              /\ Called("getCounter") =
                    IF selNodes["getCounter"].valid
                       /\ selNodes["getCounter"].in.ref = selState.ref
                    THEN 0 ELSE 1
              /\ Called("getSquareCounter") =
                    IF selNodes["getSquareCounter"].valid
                       /\ selNodes["getSquareCounter"].in = selState.counter
                    THEN 0 ELSE 1
              /\ selNodes'["getSquareCounter"].out = selState.counter * 2
        /\ ~IsSelRead => selCalls' = selCalls ]_vars

C25_Witness ==
    /\ selCalls["getCounter"] = <<1, 2, 2>>
    /\ selCalls["getSquareCounter"] = <<1, 2>>
    /\ selOps = 5


\* the step is an operation on the first component store
IsCsOperation == csCalls' = csCalls + 1 \/ csState' # csState \/ csActions' # csActions

\* the step is an operation on the second component store
IsOtherCsOperation == csOther' # csOther

\* the step is a dispatch on the store or a reduction by the store
IsStoreOperation == dispatched' # dispatched \/ reduced' # reduced \/ appState' # appState

\* C26: update, connect, undo and destroy on one component store change
\* neither the store's snapshot nor the state of another component store, and
\* a dispatch on the store (and its reduction) changes no component store's
\* state and adds nothing to a component store's action stream.
C26_ComponentStoreStateIsPrivate ==
    [][ /\ IsCsOperation =>
            UNCHANGED <<appState, queue, dispatched, reduced, csOther>>
        /\ IsOtherCsOperation =>
            UNCHANGED <<appState, queue, dispatched, reduced, csState, csActions>>
        /\ IsStoreOperation =>
            UNCHANGED <<csState, csActions, csOther>> ]_vars

\* the store reduced an inc, the first component store was updated, connected
\* and destroyed, and the second component store was updated: each holds its
\* own counter
C26_Witness ==
    /\ \E k \in StateKeys(appState) : appState.slices[k] = InitialStateValue + 1
    /\ csCreated /\ csDestroyed
    /\ csConnections # <<>> /\ csConnections[1].delivered > 0
    /\ csState.counter = 5
    /\ csOther.created /\ csOther.state.counter = 2


\* the step is the reduction of the action at the head of the queue
IsReductionStep == phase = "reduce" /\ queue' = RestOfQueue(queue)

\* C27: when a reducer throws while an action is reduced, the exception
\* reaches dispatch and the snapshot stays exactly the previous one (same
\* object, same slices); an action reduced afterwards is reduced against the
\* intact snapshot: an inc adds one to the counter slice as it was before.
C27_ReducerThrowLeavesSnapshot ==
    [][ IsReductionStep =>
          LET id == NextInQueue(queue)
              type == dispatched[id].type
          IN IF storeSubs > 0 /\ Throws(featureReducers, type)
             THEN /\ thrown' = Append(thrown, id)
                  /\ appState' = appState
             ELSE /\ thrown' = thrown
                  /\ storeSubs > 0 => Occurrences(reduced', id) > 0
                  /\ (storeSubs = 1 /\ type = "inc") =>
                        \A k \in KeysOf(featureReducers) \cap StateKeys(appState) :
                            appState'.slices[k] = appState.slices[k] + 1 ]_vars

\* a reduction threw, and an inc dispatched after the throwing action was
\* reduced: the counter slice went from its initial value to the next one
C27_Witness ==
    /\ thrown # <<>>
    /\ \E i \in 1..Len(reduced) :
          reduced[i] > thrown[1] /\ dispatched[reduced[i]].type = "inc"
    /\ PrevForKey(appState, "b") = InitialStateValue + 1


\* C28: addMetaReducers is not retroactive. A step that adds to the chain
\* leaves the snapshot and the record of every past reduction as they are;
\* no later step rewrites a past reduction; and every reduction after the
\* call, starting with the next one, runs through the whole current chain.
C28_AddMetaReducersNotRetroactive ==
    [][ /\ metaReducers' # metaReducers =>
            /\ appState' = appState
            /\ reduced' = reduced
            /\ reducedWith' = reducedWith
        /\ Len(reducedWith') >= Len(reducedWith)
        /\ SubSeq(reducedWith', 1, Len(reducedWith)) = reducedWith
        /\ (IsReductionStep /\ storeSubs > 0) =>
            /\ Len(reducedWith') = Len(reducedWith) + 1
            /\ reducedWith'[Len(reducedWith')] =
                 [id |-> NextInQueue(queue), metas |-> metaReducers] ]_vars

\* an action was reduced through a shorter chain, meta-reducers were added
\* afterwards, and a later action was reduced through the longer chain
C28_Witness ==
    \E i, j \in 1..Len(reducedWith) :
        /\ i < j
        /\ reducedWith[i].metas # <<>>
        /\ Len(reducedWith[i].metas) < Len(reducedWith[j].metas)
        /\ reducedWith[j].metas = metaReducers


EmissionsFor(id) == {i \in 1..Len(stateEmissions) : stateEmissions[i].id = id}

\* C29: a subscriber of the selected counter receives exactly one emission
\* for every action that changes the counter, in dispatch order, and no
\* value is skipped or merged: after the slice's first value every emission
\* is the previous one plus one and belongs to an inc of its own, every inc
\* reduced since the slice exists has exactly one emission, and the last
\* emission is the current value; this holds for nested dispatches as well.
C29_OneEmissionPerStateChange ==
    /\ \A i, j \in 1..Len(stateEmissions) :
          i < j => stateEmissions[i].id < stateEmissions[j].id
    /\ \A i \in 2..Len(stateEmissions) :
          /\ stateEmissions[i].value = stateEmissions[i - 1].value + 1
          /\ dispatched[stateEmissions[i].id].type = "inc"
    /\ stateEmissions # <<>> =>
          /\ stateEmissions[Len(stateEmissions)].value = selectSlice(appState)
          /\ \A k \in 1..Len(reduced) :
                (dispatched[reduced[k]].type = "inc" /\ reduced[k] >= stateEmissions[1].id)
                  => Cardinality(EmissionsFor(reduced[k])) = 1
    /\ stateEmissions = <<>> => selectSlice(appState) = Undef

\* two inc actions, the second dispatched while the first was being
\* processed, were both reduced: the subscriber saw the initial value, the
\* next one and the one after, one emission each
C29_Witness ==
    /\ Len(stateEmissions) = 3
    /\ stateEmissions[3].value = InitialStateValue + 2
    /\ dispatched[stateEmissions[3].id].nested
    /\ stateEmissions[3].id = stateEmissions[2].id + 1


\* the position of action id in the order of reduction (0: not reduced yet)
ReducedAt(id) ==
    IF \E i \in 1..Len(reduced) : reduced[i] = id
    THEN CHOOSE i \in 1..Len(reduced) : reduced[i] = id
    ELSE 0

\* the success actions are dispatched and reduced in the order in which the
\* effects emitted them: a later one never overtakes an earlier one
AppliedInEmissionOrder ==
    \A i, j \in 1..Len(fxRequests.resolved) :
        i < j =>
            LET f == fxRequests.resolved[i].action
                g == fxRequests.resolved[j].action
            IN /\ dispatched[f].src = fxRequests.resolved[i].e
               /\ f < g
               /\ (ReducedAt(f) > 0 /\ ReducedAt(g) > 0) => ReducedAt(f) < ReducedAt(g)
               /\ f \in Range(queue) => ReducedAt(g) = 0

\* the state a subscriber sees after a success action is that action's payload
SuccessPayloadApplied ==
    \A i \in 1..Len(stateEmissions) :
        dispatched[stateEmissions[i].id].src > 0 =>
            stateEmissions[i].value = PayloadOf(dispatched[stateEmissions[i].id].type)

\* C30: the success actions of asynchronously answering effects are applied
\* to state in the order in which the effects emit them, whatever the order of
\* the actions that triggered them, and registering an effect while another
\* one is busy leaves the busy effect and its calls in flight as they are.
C30_FollowUpsInEmissionOrder ==
    [][ /\ AppliedInEmissionOrder'
        /\ SuccessPayloadApplied'
        /\ Len(effects') > Len(effects) =>
            /\ fxRequests'.busy = fxRequests.busy
            /\ fxRequests'.resolved = fxRequests.resolved
            /\ \A e \in 1..Len(effects) : effects'[e] = effects[e] ]_vars

\* loadUser was dispatched first and its effect was busy when the saveUser
\* effect was registered; saveUser answered first: the subscriber saw the
\* updated user and then the loaded one
C30_Witness ==
    /\ Len(fxRequests.resolved) = 2
    /\ LET first == fxRequests.resolved[1]
           second == fxRequests.resolved[2]
       IN /\ second.trigger < first.trigger
          /\ dispatched[second.trigger].type = "loadUser"
          /\ dispatched[first.trigger].type = "saveUser"
          /\ \E p \in fxRequests.pipes :
                p.e = first.e /\ ReducedAt(second.trigger) \in 1..p.at
          /\ ReducedAt(second.action) > 0
    /\ Len(stateEmissions) = 3
    /\ stateEmissions[2].value = UpdatedAsyncUser
    /\ stateEmissions[3].value = AsyncUser


\* the snapshot the subscriber hands to the reducer: appState.get() ?? {}
ReducerInput == IF IsUndefined(appState) THEN EmptySlices ELSE appState.slices

\* the entry of slice k in the reducer's input (Undef: no such entry)
OwnPrev(k) == IF k \in DOMAIN ReducerInput THEN ReducerInput[k] ELSE Undef

\* C31: in every reduction the combined reducer invokes each registered
\* slice reducer exactly once, in the order of registration, with that
\* slice's own previous state and nothing else; the published value of slice
\* k is that reducer's result for slice k's previous value and the action,
\* whatever the other slices hold.
C31_EachSliceReducedOnceOnOwnState ==
    [][ (IsReductionStep /\ storeSubs = 1) =>
          LET type == dispatched[NextInQueue(queue)].type
              made == reducerCalls(featureReducers,
                                    [ref |-> 0, slices |-> ReducerInput], 1)
          IN /\ Len(made) = Len(featureReducers)
             /\ \A i \in 1..Len(made) :
                   /\ made[i].key = featureReducers[i].key
                   /\ made[i].prev = OwnPrev(made[i].key)
                   /\ \A j \in 1..Len(made) : made[j].key = made[i].key => j = i
             /\ \A i \in 1..Len(featureReducers) :
                   LET k == featureReducers[i].key
                   IN k \in StateKeys(appState') =>
                        appState'.slices[k] = SliceReduce(featureReducers[i], OwnPrev(k), type)
             /\ \A k \in StateKeys(appState') \ KeysOf(featureReducers) :
                   appState'.slices[k] = OwnPrev(k) ]_vars

\* two counter slices hold different values and an inc was reduced by both:
\* each went up by one from its own value
C31_Witness ==
    /\ KeysOf(featureReducers) = {"a", "b"}
    /\ StateKeys(appState) = {"a", "b"}
    /\ appState.slices["a"] # appState.slices["b"]
    /\ \E i \in 1..Len(reduced) :
          /\ dispatched[reduced[i]].type = "inc"
          /\ \E j \in 1..(i - 1) : dispatched[reduced[j]].type = "init"


\* the input a node is read with in the current state
NodeInput(n) == IF n = "getCounter" THEN selState ELSE selState.counter

\* C32: a selector node keeps exactly one (input, output) pair, the one of
\* the latest read: after every read the node's cache is the pair of the
\* input just read, and the combiner ran on that read exactly when the pair
\* held before was for another input, so X, Y, X runs the combiner three
\* times and X, X runs it once.
C32_OneCachedPairPerNode ==
    [][ IsSelRead =>
          \A n \in SelectorNodes :
              /\ selNodes'[n].valid
              /\ selNodes'[n].in = NodeInput(n)
              /\ selNodes'[n].out = combiner(n, NodeInput(n))
              /\ Called(n) = IF selNodes[n].valid /\ selNodes[n].in = NodeInput(n)
                             THEN 0 ELSE 1 ]_vars

\* getSquareCounter was read with counter 1, then 2, then 1 again: its
\* combiner ran on each of the three reads
C32_Witness ==
    /\ selCalls["getSquareCounter"] = <<1, 2, 1>>
    /\ selNodes["getSquareCounter"].in = 1
    /\ selNodes["getSquareCounter"].out = 2


\* the (namespace, operation, name) triples an internal action type is
\* built from, names that contain the separator or equal an operation included
TypeParts ==
    (({"@mini-rx"} \X {"init", "destroy", "undo"})
       \cup ({ComponentStoreNs} \X {"set-state", "connection", "destroy"}))
      \X (TypeNames \cup {"connection/counter"})

\* the triples that give the type string t
Decodings(t) == {p \in TypeParts : actionType(p[1][1], p[1][2], p[2]) = t}

\* C33: an internal action type is a function of (namespace, operation,
\* name) and is given by one such triple only: no two triples of the store's
\* or the component store's operations give the same type string, and every
\* type on a component store's action stream is built from exactly one
\* triple, the one of the operation that dispatched it.
C33_ActionTypesDistinct ==
    /\ Cardinality({actionType(p[1][1], p[1][2], p[2]) : p \in TypeParts})
          = Cardinality(TypeParts)
    /\ \A i \in 1..Len(csActions) :
          /\ Cardinality(Decodings(csActions[i].type)) = 1
          /\ \A p \in Decodings(csActions[i].type) :
                /\ p[1][1] = ComponentStoreNs
                /\ csActions[i].patch = "connection" <=> p[1][2] = "connection"
                /\ csActions[i].patch = "none" <=> p[1][2] = "destroy"
    /\ \A i \in 1..Len(csOther.actions) :
          Decodings(csOther.actions[i].type) = {<<<<ComponentStoreNs, "set-state">>, NoKey>>}

\* the streams of the two component stores hold set-state without a name,
\* set-state named increment, the connection of field counter and destroy:
\* four different types
C33_Witness ==
    /\ Len(csActions) = 3
    /\ csActions[1].type = "@mini-rx/component-store/set-state/increment"
    /\ csActions[2].type = "@mini-rx/component-store/connection/counter"
    /\ csActions[3].type = "@mini-rx/component-store/destroy"
    /\ Len(csOther.actions) = 1
    /\ csOther.actions[1].type = "@mini-rx/component-store/set-state"


\* C34: however often configureStore, addFeature and destroy are called, at
\* most one state-updating subscription to the action stream is alive; every
\* dispatched action is therefore reduced at most once, and a step that
\* reduces an action runs the subscriber (one reduction, one write of the
\* snapshot) at most once.
C34_AtMostOneStateSubscription ==
    [][ /\ storeSubs' <= 1
        /\ \A id \in 1..Len(dispatched') : Occurrences(reduced', id) <= 1
        /\ (IsReductionStep => Len(reduced') <= Len(reduced) + 1) ]_vars

\* the store was set up, destroyed and set up again (the second init action of
\* slice "a" is not a duplicate), and the new subscription reduced an action
C34_Witness ==
    /\ storeSubs = 1
    /\ \E i, j \in 1..Len(dispatched) :
          /\ i < j
          /\ dispatched[i].type = "init" /\ dispatched[i].key = "a"
          /\ dispatched[j].type = "init" /\ dispatched[j].key = "a"
          /\ Occurrences(reduced, i) = 1
          /\ Occurrences(reduced, j) = 1


\* slice k is registered and its reducer has not yet produced a value
NewlyRegistered(k) ==
    /\ k \in KeysOf(featureReducers)
    /\ (IsUndefined(appState) \/ k \notin StateKeys(appState))

\* C35 (as stated): the first action reduced by the reducer of a newly
\* registered slice is that slice's own init action, also when addFeature is
\* called while an action is being processed and other actions are waiting.
C35_FirstReducedIsOwnInit ==
    [][ \A k \in Keys :
          (IsReductionStep /\ storeSubs > 0 /\ NewlyRegistered(k)) =>
              /\ dispatched[NextInQueue(queue)].type = "init"
              /\ dispatched[NextInQueue(queue)].key = k ]_vars


\* C36 (as stated): whatever snapshot the combined reducer is handed (also one
\* whose keys differ from the registered keys) and whatever the action, the
\* object it returns, which the state subscriber publishes, has exactly the
\* keys of the reducer dictionary.
C36_ResultHasDictionaryKeys ==
    [][ (IsReductionStep /\ storeSubs > 0) =>
            StateKeys(appState') = KeysOf(featureReducers) ]_vars


\* a successful configureStore dispatches one INIT action, behind whatever waits
ConfigureDispatchesOneInit ==
    (IsCall("configureStore") /\ lastCall'.err = "none") =>
        /\ dispatched' = Append(dispatched, Action("init", NoKey, 0))
        /\ queue' = Append(queue, Len(dispatched'))

\* this step reduces the INIT action of the configureStore call in lastCall
\* (no call was made since)
ReducesConfiguredInit ==
    /\ IsReductionStep
    /\ storeSubs > 0
    /\ lastCall.op = "configureStore"
    /\ lastCall.err = "none"
    /\ NextInQueue(queue) = Len(dispatched)
    /\ dispatched[NextInQueue(queue)].type = "init"
    /\ dispatched[NextInQueue(queue)].key = NoKey

\* the reduction runs through the configured meta-reducers and the extensions'
\* meta-reducers, with the configured reducers, on the configured initialState
ConfiguredWhenReduced ==
    /\ Range(lastCall.cfg.metaReducers) \cup Range(lastCall.cfg.extensions)
           \subseteq Range(reducedWith'[Len(reducedWith')].metas)
    /\ reducedWith'[Len(reducedWith')].id = NextInQueue(queue)
    /\ (lastCall.cfg.hasReducers => featureReducers = lastCall.cfg.reducers)
    /\ (lastCall.cfg.hasInitialState =>
           /\ ~IsUndefined(appState)
           /\ appState.slices = lastCall.cfg.initialState)

\* C37 (as stated): configureStore dispatches exactly one INIT action as its
\* last step, and when that INIT action is reduced the configured
\* meta-reducers and extension meta-reducers are installed, the configured
\* reducers are registered and the configured initialState is the snapshot
\* being reduced.
C37_InitReducedOnConfiguration ==
    [][ /\ ConfigureDispatchesOneInit
        /\ (ReducesConfiguredInit => ConfiguredWhenReduced) ]_vars

\* C37 (amended): the same, for a configureStore call made outside of any
\* action processing (its INIT action is reduced before the call returns); a
\* call made while an action is processed queues INIT behind the waiting
\* actions, which are reduced first.
C37_InitReducedOnConfigurationWhenIdle ==
    [][ /\ ConfigureDispatchesOneInit
        /\ (ReducesConfiguredInit /\ ~dispatched[NextInQueue(queue)].nested
              => ConfiguredWhenReduced) ]_vars

\* the INIT action of a configureStore call with reducers and initialState,
\* made outside of any processing, has just been reduced
C37_Witness ==
    /\ phase = "notify"
    /\ lastCall.op = "configureStore" /\ lastCall.err = "none"
    /\ lastCall.cfg.hasReducers /\ lastCall.cfg.hasInitialState
    /\ reduced # <<>>
    /\ reduced[Len(reduced)] = Len(dispatched)
    /\ dispatched[Len(dispatched)].type = "init"
    /\ dispatched[Len(dispatched)].key = NoKey
    /\ ~dispatched[Len(dispatched)].nested
    /\ appState.slices = lastCall.cfg.initialState


\* the configured flag goes from false to true in this step
FlagSet == isStoreConfigured' /\ ~isStoreConfigured

\* C38: a configureStore call that fails (repeated call, or feature reducers
\* detected) leaves the snapshot, the registered reducers, the meta-reducer
\* chain and hasUndoExtension as they were and dispatches no INIT action, and
\* the configured flag is set only by a successful call: when it returns, at
\* once if it was made during an action's processing, else when the queue
\* its INIT action started has been drained.
C38_FailedConfigureChangesNothing ==
    [][ /\ (IsCall("configureStore") /\ lastCall'.err # "none" =>
              UNCHANGED <<appState, featureReducers, metaReducers,
                          hasUndoExtension, dispatched, queue, isStoreConfigured>>)
        /\ (FlagSet =>
              \/ IsCall("configureStore") /\ lastCall'.err = "none"
              \/ phase = "notify" /\ phase' = "idle" /\ InsideConfigureStore) ]_vars

\* a first configureStore call has just failed because a feature was
\* registered before: the slice is still there and the flag is not set
C38_Witness ==
    /\ lastCall.op = "configureStore"
    /\ lastCall.err = "ReducersDetected"
    /\ lastCall.cfg.hasInitialState
    /\ ~isStoreConfigured
    /\ "a" \in StateKeys(appState)
    /\ KeysOf(featureReducers) = {"a"}

=============================================================================
